---------------------------- MODULE Spec2Model ----------------------------
(***************************************************************************)
(* Model of the fixture -> iCalendar pipeline of pool-league-fixtures.     *)
(*                                                                         *)
(* Strings are sequences of pieces.  A piece is either one character of    *)
(* text that comes from the input (a record field, a map value) or one     *)
(* literal of the source ('BEGIN:VEVENT', 'UID:', ...), kept whole.  All   *)
(* character level work of the code (split, parseInt, toLowerCase, the     *)
(* regular expression of format_date_for_ical, join) is done on pieces.    *)
(*                                                                         *)
(* A Number is the record [nan |-> FALSE, n |-> value] or NaN.  A Date is  *)
(* [nan |-> FALSE, day |-> Day(t), ms |-> TimeWithinDay(t)] for the time   *)
(* value t, or InvalidDate when its time value is NaN.                     *)
(***************************************************************************)
EXTENDS Integers, Sequences, FiniteSets, TLC

VARIABLES
    variant,          \* which serializer of the repository runs
    events,           \* argument `events` of convert_events_to_ical
    location_mapper,  \* argument `location_mapper` (own properties of the object)
    team_url,         \* argument `team_url`
    now,              \* the system clock: the value new Date() returns when called
    pc,               \* position in convert_events_to_ical
    idx,              \* index of the record the for..of loop handles next
    dtstamp,          \* local `dtstamp`
    ical_lines,       \* local `ical_lines`
    emitted,          \* per pushed VEVENT: the record index and the locals of the iteration
    log,              \* console.warn calls made so far
    ical_string,      \* the string convert_events_to_ical returned (pc = "done")
    c_date,           \* argument `date_str` of parse_utc_date
    c_time,           \* argument `time_str` of parse_utc_date
    c_pc,             \* position in the parse -> format composition
    c_start,          \* value returned by parse_utc_date
    c_end,            \* the end date computed from it
    c_text,           \* format_date_for_ical of the start date
    c_end_text,       \* format_date_for_ical of the end date
    parser,           \* which extractor runs: parse_fixtures or parse_results
    html_content,     \* argument `html_content`, as the document cheerio.load builds
    x_pc,             \* position in the extractor
    table_rows,       \* local `table_rows`: the rows the selector matched
    index,            \* argument `index` of the .each callback (0-based)
    fixtures,         \* local `fixtures` (`results` in parse_results)
    warnings,         \* console.warn / console.error calls made so far
    script,           \* which script's main runs
    files,            \* the files the run finds: path -> state of the file
    m_pc,             \* position in main
    teams,            \* local `teams` of main: the value parsed from teams.json
    team_index,       \* number of entries of `teams` the for..of loop has taken
    written,          \* the files written so far, in the order of the writes
    previous          \* what an earlier call of the serializer returned

vars == <<variant, events, location_mapper, team_url, now, pc, idx, dtstamp, ical_lines,
          emitted, log, ical_string, c_date, c_time, c_pc, c_start, c_end, c_text, c_end_text,
          parser, html_content, x_pc, table_rows, index, fixtures, warnings,
          script, files, m_pc, teams, team_index, written, previous>>

serVars == <<variant, events, location_mapper, team_url, now, pc, idx, dtstamp, ical_lines,
             emitted, log, ical_string>>

codecVars == <<c_date, c_time, c_pc, c_start, c_end, c_text, c_end_text>>

extVars == <<parser, html_content, x_pc, table_rows, index, fixtures, warnings>>

mainVars == <<script, files, m_pc, teams, team_index, written, previous>>

\* the value null that parse_utc_date returns
Null == [null |-> TRUE]

NaN == [nan |-> TRUE, n |-> 0]

Num(v) == [nan |-> FALSE, n |-> v]

\* a Date whose time value is NaN
InvalidDate == [nan |-> TRUE, day |-> 0, ms |-> 0]

IsNaN(x) == x.nan

-----------------------------------------------------------------------------
(* Strings                                                                 *)

Digits == <<"0", "1", "2", "3", "4", "5", "6", "7", "8", "9">>

UpperCase == <<"A", "B", "C", "D", "E", "F", "G", "H", "I", "J", "K", "L", "M",
               "N", "O", "P", "Q", "R", "S", "T", "U", "V", "W", "X", "Y", "Z">>

LowerCase == <<"a", "b", "c", "d", "e", "f", "g", "h", "i", "j", "k", "l", "m",
               "n", "o", "p", "q", "r", "s", "t", "u", "v", "w", "x", "y", "z">>

CR == "\r"
LF == "\n"

\* the characters parseInt skips before the number (StrWhiteSpaceChar)
WhiteSpace == {" ", "\t", CR, LF}

IsDigit(c) == \E k \in 1..10 : Digits[k] = c

DigitValue(c) == (CHOOSE k \in 1..10 : Digits[k] = c) - 1

RECURSIVE SplitFrom(_, _, _, _)
SplitFrom(s, sep, k, cur) ==
    IF k > Len(s) THEN <<cur>>
    ELSE IF s[k] = sep THEN <<cur>> \o SplitFrom(s, sep, k + 1, <<>>)
    ELSE SplitFrom(s, sep, k + 1, Append(cur, s[k]))

\* String.prototype.split with a one character separator (the receiver is
\* evaluated once, as a value, before the scan starts)
Split(s, sep) == CHOOSE parts \in {SplitFrom(str, sep, 1, <<>>) : str \in {s}} : TRUE

\* String.prototype.toLowerCase
ToLowerCase(s) ==
    [k \in 1..Len(s) |->
        IF \E j \in 1..26 : UpperCase[j] = s[k]
        THEN LowerCase[CHOOSE j \in 1..26 : UpperCase[j] = s[k]]
        ELSE s[k]]

RECURSIVE Join(_, _)
\* Array.prototype.join
Join(lines, sep) ==
    IF Len(lines) = 0 THEN <<>>
    ELSE IF Len(lines) = 1 THEN lines[1]
    ELSE lines[1] \o sep \o Join(Tail(lines), sep)

RECURSIVE DigitsValue(_, _, _)
DigitsValue(s, k, acc) ==
    IF k > Len(s) \/ ~IsDigit(s[k]) THEN acc
    ELSE DigitsValue(s, k + 1, acc * 10 + DigitValue(s[k]))

RECURSIVE SkipWhiteSpace(_, _)
SkipWhiteSpace(s, k) ==
    IF k <= Len(s) /\ s[k] \in WhiteSpace THEN SkipWhiteSpace(s, k + 1) ELSE k

\* parseInt(s, 10): leading white space, an optional sign, then the longest
\* run of decimal digits; NaN when that run is empty
\* (the argument is passed by value: it is evaluated once, then scanned)
ParseInt(s) ==
    LET scan(str) ==
            LET k0 == SkipWhiteSpace(str, 1)
                neg == k0 <= Len(str) /\ str[k0] = "-"
                k1 == IF k0 <= Len(str) /\ str[k0] \in {"-", "+"} THEN k0 + 1 ELSE k0
            IN IF k1 > Len(str) \/ ~IsDigit(str[k1]) THEN NaN
               ELSE IF neg THEN Num(0 - DigitsValue(str, k1, 0))
               ELSE Num(DigitsValue(str, k1, 0))
    IN CHOOSE number \in {scan(str) : str \in {s}} : TRUE

RECURSIVE NatToStr(_)
NatToStr(n) ==
    IF n < 10 THEN <<Digits[n + 1]>> ELSE NatToStr(n \div 10) \o <<Digits[(n % 10) + 1]>>

RECURSIVE PadStart(_, _)
\* decimal digits of n, left padded with zeros to at least w characters
PadStart(s, w) == IF Len(s) >= w THEN s ELSE PadStart(<<"0">> \o s, w)

Pad(n, w) == PadStart(NatToStr(n), w)

-----------------------------------------------------------------------------
(* Dates: the time value arithmetic of ECMAScript that Date.UTC,           *)
(* setUTCHours, getUTCHours and toISOString perform                        *)

msPerDay == 86400000
msPerHour == 3600000
msPerMinute == 60000
msPerSecond == 1000
MinutesPerDay == 1440

\* TimeClip: a time value beyond 8.64e15 ms (100,000,000 days) is NaN
MaxDay == 100000000

DaysInYear(y) ==
    IF y % 4 # 0 THEN 365
    ELSE IF y % 100 # 0 THEN 366
    ELSE IF y % 400 # 0 THEN 365
    ELSE 366

InLeapYear(y) == DaysInYear(y) = 366

\* DayFromYear: the day number of 1 January of year y
DayFromYear(y) ==
    365 * (y - 1970) + ((y - 1969) \div 4) - ((y - 1901) \div 100) + ((y - 1601) \div 400)

\* days before the first of month m (0 = January) in a common year
MonthStart == <<0, 31, 59, 90, 120, 151, 181, 212, 243, 273, 304, 334, 365>>

DayOfMonthStart(y, m) ==
    MonthStart[m + 1] + (IF m >= 2 /\ InLeapYear(y) THEN 1 ELSE 0)

\* MakeDay(year, month, date): month may lie outside 0..11, date outside the month
MakeDay(year, month, date) ==
    LET ym == year + (month \div 12)
        mn == month % 12
    IN DayFromYear(ym) + DayOfMonthStart(ym, mn) + date - 1

TimeClip(t) ==
    LET clip(time) ==
            IF IsNaN(time) THEN InvalidDate
            ELSE IF time.day > MaxDay \/ time.day < 0 - MaxDay
                    \/ (time.day = MaxDay /\ time.ms > 0)
                 THEN InvalidDate
            ELSE time
    IN CHOOSE clipped \in {clip(time) : time \in {t}} : TRUE

\* MakeDate(day, MakeTime(hour, min, 0, 0))
MakeDate(day, hour, min) ==
    LET total == hour * 60 + min
    IN [nan |-> FALSE,
        day |-> day + (total \div MinutesPerDay),
        ms  |-> (total % MinutesPerDay) * msPerMinute]

\* Date.UTC(year, month, day, hour, minute)
DateUTC(year, month, day, hour, minute) ==
    IF IsNaN(year) \/ IsNaN(month) \/ IsNaN(day) \/ IsNaN(hour) \/ IsNaN(minute)
    THEN InvalidDate
    ELSE LET yr == IF year.n >= 0 /\ year.n <= 99 THEN 1900 + year.n ELSE year.n
         IN TimeClip(MakeDate(MakeDay(yr, month.n, day.n), hour.n, minute.n))

\* x + n on Numbers
Plus(x, n) == IF IsNaN(x) THEN NaN ELSE Num(x.n + n)

YearFromTime(t) ==
    LET a == t.day \div 366
        b == t.day \div 365
        lo == 1970 + (IF a < b THEN a ELSE b) - 1
        hi == 1970 + (IF a < b THEN b ELSE a) + 1
    IN CHOOSE y \in lo..hi : DayFromYear(y) <= t.day /\ t.day < DayFromYear(y + 1)

DayWithinYear(t) == t.day - DayFromYear(YearFromTime(t))

\* MonthFromTime: 0 = January
MonthFromTime(t) ==
    LET y == YearFromTime(t)
    IN CHOOSE m \in 0..11 :
        /\ DayOfMonthStart(y, m) <= DayWithinYear(t)
        /\ DayWithinYear(t) < (IF m = 11 THEN DaysInYear(y) ELSE DayOfMonthStart(y, m + 1))

DateFromTime(t) ==
    DayWithinYear(t) - DayOfMonthStart(YearFromTime(t), MonthFromTime(t)) + 1

HourFromTime(t) == t.ms \div msPerHour
MinFromTime(t) == (t.ms % msPerHour) \div msPerMinute
SecFromTime(t) == (t.ms % msPerMinute) \div msPerSecond
msFromTime(t) == t.ms % msPerSecond

\* Date.prototype.getUTCHours
GetUTCHours(t) == IF IsNaN(t) THEN NaN ELSE Num(HourFromTime(t))

\* Date.prototype.setUTCHours(hour): MakeDate(Day(t), MakeTime(hour, min, sec, ms))
SetUTCHours(t, hour) ==
    IF IsNaN(t) \/ IsNaN(hour) THEN InvalidDate
    ELSE LET time == hour.n * msPerHour + (t.ms % msPerHour)
         IN TimeClip([nan |-> FALSE,
                      day |-> t.day + (time \div msPerDay),
                      ms  |-> time % msPerDay])

\* Date.prototype.toISOString of a valid date (it throws a RangeError on NaN)
ToISOString(t) ==
    LET iso(tv) ==
            LET y == YearFromTime(tv)
                year == IF y >= 0 /\ y <= 9999 THEN Pad(y, 4)
                        ELSE IF y < 0 THEN <<"-">> \o Pad(0 - y, 6)
                        ELSE <<"+">> \o Pad(y, 6)
            IN year \o <<"-">> \o Pad(MonthFromTime(tv) + 1, 2)
               \o <<"-">> \o Pad(DateFromTime(tv), 2)
               \o <<"T">> \o Pad(HourFromTime(tv), 2) \o <<":">> \o Pad(MinFromTime(tv), 2)
               \o <<":">> \o Pad(SecFromTime(tv), 2) \o <<".">> \o Pad(msFromTime(tv), 3)
               \o <<"Z">>
    IN CHOOSE text \in {iso(tv) : tv \in {t}} : TRUE

\* String.prototype.replace(/[-:]/g, '')
StripDashColon(s) == SelectSeq(s, LAMBDA c : c \notin {"-", ":"})

-----------------------------------------------------------------------------
(* The temporal codec                                                      *)

\* parse_utc_date with the month passed to Date.UTC as written, 1-indexed
parse_utc_date_month_one_indexed(date_str, time_str) ==
    LET date_parts == Split(date_str, "/")
        time_parts == Split(time_str, ":")
    IN IF Len(date_parts) # 3 \/ Len(time_parts) # 2 THEN Null
       ELSE DateUTC(Plus(ParseInt(date_parts[3]), 2000), ParseInt(date_parts[2]),
                    ParseInt(date_parts[1]), ParseInt(time_parts[1]),
                    ParseInt(time_parts[2]))

\* parse_utc_date with the two digit year left to Date.UTC, which reads it as 19YY
parse_utc_date_year_not_offset(date_str, time_str) ==
    LET date_parts == Split(date_str, "/")
        time_parts == Split(time_str, ":")
    IN IF Len(date_parts) # 3 \/ Len(time_parts) # 2 THEN Null
       ELSE DateUTC(ParseInt(date_parts[3]), Plus(ParseInt(date_parts[2]), -1),
                    ParseInt(date_parts[1]), ParseInt(time_parts[1]),
                    ParseInt(time_parts[2]))

\* parse_utc_date that checks the number of parts of the date only; a part the
\* time lacks is undefined, which parseInt reads as NaN
parse_utc_date_date_parts_only(date_str, time_str) ==
    LET date_parts == Split(date_str, "/")
        time_parts == Split(time_str, ":")
    IN IF Len(date_parts) # 3 THEN Null
       ELSE LET day == ParseInt(date_parts[1])
                month == Plus(ParseInt(date_parts[2]), -1)
                year == Plus(ParseInt(date_parts[3]), 2000)
                hour == ParseInt(time_parts[1])
                minute == IF Len(time_parts) >= 2 THEN ParseInt(time_parts[2]) ELSE NaN
            IN DateUTC(year, month, day, hour, minute)

\* parse_utc_date with a month outside 1..12 rejected
parse_utc_date_month_checked(date_str, time_str) ==
    LET date_parts == Split(date_str, "/")
        time_parts == Split(time_str, ":")
    IN IF Len(date_parts) # 3 \/ Len(time_parts) # 2 THEN Null
       ELSE LET day == ParseInt(date_parts[1])
                month == Plus(ParseInt(date_parts[2]), -1)
                year == Plus(ParseInt(date_parts[3]), 2000)
                hour == ParseInt(time_parts[1])
                minute == ParseInt(time_parts[2])
            IN IF ~IsNaN(month) /\ month.n \notin 0..11 THEN Null
               ELSE DateUTC(year, month, day, hour, minute)

\* parse_utc_date(date_str, time_str): null, a valid instant, or an Invalid Date
parse_utc_date(date_str, time_str) ==
    LET date_parts == Split(date_str, "/")
        time_parts == Split(time_str, ":")
    IN IF Len(date_parts) # 3 \/ Len(time_parts) # 2 THEN Null
       ELSE LET day == ParseInt(date_parts[1])
                month == Plus(ParseInt(date_parts[2]), -1)
                year == Plus(ParseInt(date_parts[3]), 2000)
                hour == ParseInt(time_parts[1])
                minute == ParseInt(time_parts[2])
            IN DateUTC(year, month, day, hour, minute)

\* format_date_for_ical(date) for a valid date
format_date_for_ical(date) ==
    Split(StripDashColon(ToISOString(date)), ".")[1] \o <<"Z">>

\* the end date with the hour field wrapped within the start's day
end_date_of_hour_wrapped(start_date) ==
    IF IsNaN(start_date) THEN InvalidDate
    ELSE [start_date EXCEPT
            !.ms = ((HourFromTime(start_date) + 2) % 24) * msPerHour
                   + (start_date.ms % msPerHour)]

\* end_date = new Date(start_date.getTime()); end_date.setUTCHours(end_date.getUTCHours() + 2)
end_date_of(start_date) == SetUTCHours(start_date, Plus(GetUTCHours(start_date), 2))

-----------------------------------------------------------------------------
(* The calendar serializer: convert_events_to_ical                         *)

\* properties every object inherits from Object.prototype whose names are
\* all lower case, with the text a template literal renders them as
ObjectPrototype ==
    (<<"c", "o", "n", "s", "t", "r", "u", "c", "t", "o", "r">>
        :> <<"function Object() { [native code] }">>)
    @@ (<<"_", "_", "p", "r", "o", "t", "o", "_", "_">> :> <<"[object Object]">>)

\* location_mapper[key]: an own property, else an inherited one, else
\* undefined (falsy like the empty string, and written here as the empty string)
GetProperty(mapper, key) ==
    IF key \in DOMAIN mapper THEN mapper[key]
    ELSE IF key \in DOMAIN ObjectPrototype THEN ObjectPrototype[key]
    ELSE <<>>

\* the lookup without toLowerCase
resolve_location_case_sensitive(mapper, venue) ==
    LET mapped == GetProperty(mapper, venue)
    IN IF mapped # <<>> THEN mapped ELSE venue

\* the lookup that falls back to the venue only when the key is missing
resolve_location_no_fallback_on_empty(mapper, venue) ==
    IF ToLowerCase(venue) \in DOMAIN mapper THEN mapper[ToLowerCase(venue)] ELSE venue

\* location_mapper[event.venue.toLowerCase()] || event.venue
resolve_location(mapper, venue) ==
    LET mapped == GetProperty(mapper, ToLowerCase(venue))
    IN IF mapped # <<>> THEN mapped ELSE venue

\* the summary of the fixtures-only serializers, which ignores the result
make_summary_always_vs(event) ==
    event.home_team \o <<" vs ">> \o event.away_team

\* if (event.result) {...} else {...}
make_summary(event) ==
    IF "result" \in DOMAIN event /\ event.result # <<>>
    THEN event.home_team \o <<" ">> \o event.result \o <<" ">> \o event.away_team
    ELSE event.home_team \o <<" vs ">> \o event.away_team

crlf == <<CR, LF>>

CalendarHeader ==
    << <<"BEGIN:VCALENDAR">>,
       <<"VERSION:2.0">>,
       <<"PRODID:-//CraigWayne//PoolFixtures v1.0//EN">>,
       <<"CALSCALE:GREGORIAN">> >>

\* the block of an event whose identifier is also written into the description
event_lines_uid_in_description(uid, summary, location, url, stamp, dtstart_formatted, dtend_formatted) ==
    << <<"BEGIN:VEVENT">>,
       <<"UID:">> \o uid,
       <<"SUMMARY:">> \o summary,
       <<"LOCATION:">> \o location,
       <<"DESCRIPTION:">> \o url \o <<"#">> \o uid,
       <<"DTSTAMP:">> \o stamp,
       <<"DTSTART:">> \o dtstart_formatted,
       <<"DTEND:">> \o dtend_formatted,
       <<"END:VEVENT">> >>

\* the lines one ical_lines.push(...) call of the loop appends
event_lines(uid, summary, location, url, stamp, dtstart_formatted, dtend_formatted) ==
    << <<"BEGIN:VEVENT">>,
       <<"UID:">> \o uid,
       <<"SUMMARY:">> \o summary,
       <<"LOCATION:">> \o location,
       <<"DESCRIPTION:">> \o url,
       <<"DTSTAMP:">> \o stamp,
       <<"DTSTART:">> \o dtstart_formatted,
       <<"DTEND:">> \o dtend_formatted,
       <<"END:VEVENT">> >>

\* number of identifiers uuidv4() can choose from at each of its calls
MaxUuid == 2

\* the text of the n-th identifier uuidv4() can return
Uuid(n) == <<"uuid-">> \o NatToStr(n)

\* the uids of the blocks pushed so far
UsedUids(blocks) == {blocks[k].uid : k \in 1..Len(blocks)}

\* a generator that may hand out an identifier a second time
uuidv4_may_repeat(used) == {Uuid(n) : n \in 1..(Cardinality(used) + MaxUuid)}

\* uuidv4(): a random version 4 UUID, which the library documents as unique;
\* any identifier not handed out before in this process
uuidv4(used) == {Uuid(n) : n \in 1..(Cardinality(used) + MaxUuid)} \ used

\* the clock a second later: time passes while the loop runs
Tick(t) ==
    IF t.ms + msPerSecond < msPerDay THEN [t EXCEPT !.ms = t.ms + msPerSecond]
    ELSE [t EXCEPT !.day = t.day + 1, !.ms = t.ms + msPerSecond - msPerDay]

\* a stamp taken anew for every event
event_dtstamp_per_event(stamp, clock) == format_date_for_ical(clock)

\* `DTSTAMP:${dtstamp}`: the loop reads the constant taken before it
event_dtstamp(stamp, clock) == stamp

\* longest record list passed to the serializer
MaxEvents == 2

\* a document left without its last line
close_calendar_unclosed(lines) == lines

\* ical_lines.push('END:VCALENDAR')
close_calendar(lines) == Append(lines, <<"END:VCALENDAR">>)

\* const crlf, dtstamp, ical_lines = [...] and the warning on an empty list
Begin ==
    /\ pc = "start"
    /\ log' = IF Len(events) = 0 THEN Append(log, "warn_no_events") ELSE log
    /\ dtstamp' = format_date_for_ical(now)
    /\ ical_lines' = CalendarHeader
    /\ idx' = 1
    /\ pc' = "loop"
    /\ UNCHANGED <<variant, events, location_mapper, team_url, now, emitted, ical_string>>
    /\ UNCHANGED <<codecVars, extVars, mainVars>>

\* one iteration: parse_utc_date returned null, the record is skipped
LoopSkip ==
    /\ pc = "loop"
    /\ idx <= Len(events)
    /\ parse_utc_date(events[idx].date, events[idx].time) = Null
    /\ log' = Append(log, "warn_skip")
    /\ idx' = idx + 1
    /\ now' = Tick(now)
    /\ UNCHANGED <<variant, events, location_mapper, team_url, pc, dtstamp, ical_lines,
                   emitted, ical_string>>
    /\ UNCHANGED <<codecVars, extVars, mainVars>>

\* one iteration: an event block is pushed
LoopEmit ==
    /\ pc = "loop"
    /\ idx <= Len(events)
    /\ \E event \in {events[idx]} :
       \E start_date \in {parse_utc_date(event.date, event.time)} :
          /\ start_date # Null
          /\ ~IsNaN(start_date)
          /\ ~IsNaN(end_date_of(start_date))
          /\ \E uid \in uuidv4(UsedUids(emitted)),
                end_date \in {end_date_of(start_date)},
                dtstart_formatted \in {format_date_for_ical(start_date)},
                summary \in {make_summary(event)},
                location \in {resolve_location(location_mapper, event.venue)} :
               LET dtend_formatted == format_date_for_ical(end_date)
               IN /\ ical_lines' = ical_lines \o
                        event_lines(uid, summary, location, team_url,
                                    event_dtstamp(dtstamp, now),
                                    dtstart_formatted, dtend_formatted)
                  /\ emitted' = Append(emitted,
                        [index |-> idx, start_date |-> start_date, end_date |-> end_date,
                         summary |-> summary, location |-> location, uid |-> uid,
                         dtstart |-> dtstart_formatted, dtend |-> dtend_formatted,
                         first_line |-> Len(ical_lines) + 1])
    /\ idx' = idx + 1
    /\ now' = Tick(now)
    /\ UNCHANGED <<variant, events, location_mapper, team_url, pc, dtstamp, log, ical_string>>
    /\ UNCHANGED <<codecVars, extVars, mainVars>>

\* one iteration: parse_utc_date returned an Invalid Date (a part that is not a
\* number) and toISOString throws a RangeError out of convert_events_to_ical
LoopThrow ==
    /\ pc = "loop"
    /\ idx <= Len(events)
    /\ \E start_date \in {parse_utc_date(events[idx].date, events[idx].time)} :
          /\ start_date # Null
          /\ IsNaN(start_date) \/ IsNaN(end_date_of(start_date))
    /\ pc' = "threw"
    /\ UNCHANGED <<variant, events, location_mapper, team_url, now, idx, dtstamp, ical_lines,
                   emitted, log, ical_string>>
    /\ UNCHANGED <<codecVars, extVars, mainVars>>

\* ical_lines.push('END:VCALENDAR'); return ical_lines.join(crlf)
Finish ==
    /\ pc = "loop"
    /\ idx > Len(events)
    /\ ical_lines' = close_calendar(ical_lines)
    /\ ical_string' = Join(ical_lines', crlf)
    /\ pc' = "done"
    /\ UNCHANGED <<variant, events, location_mapper, team_url, now, idx, dtstamp, emitted, log>>
    /\ UNCHANGED <<codecVars, extVars, mainVars>>

-----------------------------------------------------------------------------
(* Inputs of the serializer                                                *)

\* a Fixture: no result property
Fixture(date, time, home_team, away_team, venue) ==
    [date |-> date, time |-> time, home_team |-> home_team, away_team |-> away_team,
     venue |-> venue]

\* a Result: a Fixture plus the result property
ResultRecord(date, time, home_team, away_team, venue, res) ==
    [date |-> date, time |-> time, home_team |-> home_team, away_team |-> away_team,
     venue |-> venue, result |-> res]

Date_28_10_25 == <<"2", "8", "/", "1", "0", "/", "2", "5">>
Time_20_30 == <<"2", "0", ":", "3", "0">>
Home == <<"H", "o", "m", "e">>
Away == <<"A", "w", "a", "y">>
ClubA == <<"C", "l", "u", "b", " ", "A">>

\* records that differ in their date and time: a plain one, one that ends in the
\* next year, one with the 'N/A' placeholders, and one that splits correctly
\* but holds a part that is not a number
DateTimeRecords ==
    { Fixture(Date_28_10_25, Time_20_30, Home, Away, ClubA),
      Fixture(<<"3", "1", "/", "1", "2", "/", "2", "5">>, <<"2", "2", ":", "3", "0">>, Home, Away, ClubA),
      Fixture(<<"N", "/", "A">>, <<"N", "/", "A">>, Home, Away, ClubA),
      Fixture(<<"x", "x", "/", "1", "0", "/", "2", "5">>, Time_20_30, Home, Away, ClubA) }

\* records that differ in their venue
VenueRecords ==
    { Fixture(Date_28_10_25, Time_20_30, Home, Away, v) :
        v \in { <<"C", "L", "U", "B", " ", "A">>, <<>>,
                <<"c", "o", "n", "s", "t", "r", "u", "c", "t", "o", "r">> } }

\* result records as parse_results builds them (venue ''), result filled or empty
ResultRecords ==
    { ResultRecord(Date_28_10_25, Time_20_30, Home, Away, <<>>, r) :
        r \in { <<"3", "-", "1">>, <<>> } }

\* a trimmed team name that keeps a line feed between its words
MultiLineRecords ==
    { Fixture(Date_28_10_25, Time_20_30, <<"H", "o", "\n", "m", "e">>, Away, ClubA) }

Records == DateTimeRecords \cup VenueRecords \cup ResultRecords \cup MultiLineRecords

RECURSIVE SeqsUpTo(_, _)
\* the sequences over S of length at most n
SeqsUpTo(S, n) ==
    IF n = 0 THEN {<<>>}
    ELSE LET shorter == SeqsUpTo(S, n - 1)
         IN shorter \cup {Append(q, x) : q \in shorter, x \in S}

\* location_mapper.json contents; {} is also what a missing file gives
LocationMappers ==
    { <<>>,
      (<<"c", "l", "u", "b", " ", "a">> :> <<"M", "a", "i", "n", " ", "H", "a", "l", "l">>),
      (<<"c", "l", "u", "b", " ", "a">> :> <<>>) @@ (<<>> :> <<"T", "B", "A">>) }

TeamUrls == { <<"h", "t", "t", "p", ":", "/", "/", "t", ".", "e", "/", "1">> }

\* a value of new Date(): 2025-11-01T12:34:56.789Z
Now_2025_11_01 == [nan |-> FALSE, day |-> 20393, ms |-> 45296789]

\* values of new Date(): that one, and 2025-12-31T23:59:59.500Z, half a
\* second before the year ends
NowValues ==
    { Now_2025_11_01,
      [nan |-> FALSE, day |-> 20453, ms |-> 86399500] }

ExtractorIdle ==
    /\ parser = "idle"
    /\ html_content = [empty |-> TRUE, tables |-> <<>>]
    /\ x_pc = "idle"
    /\ table_rows = <<>>
    /\ index = 0
    /\ fixtures = <<>>
    /\ warnings = <<>>

MainIdle ==
    /\ script = "idle"
    /\ files = <<>>
    /\ m_pc = "idle"
    /\ teams = <<>>
    /\ team_index = 0
    /\ written = <<>>
    /\ previous = <<>>

CodecIdle ==
    /\ c_date = <<>>
    /\ c_time = <<>>
    /\ c_pc = "idle"
    /\ c_start = Null
    /\ c_end = Null
    /\ c_text = <<>>
    /\ c_end_text = <<>>

Init ==
    /\ variant = "events"
    /\ events \in SeqsUpTo(Records, MaxEvents)
    /\ location_mapper \in LocationMappers
    /\ team_url \in TeamUrls
    /\ now = Now_2025_11_01
    /\ pc = "start"
    /\ idx = 0
    /\ dtstamp = <<>>
    /\ ical_lines = <<>>
    /\ emitted = <<>>
    /\ log = <<>>
    /\ ical_string = <<>>
    /\ CodecIdle
    /\ ExtractorIdle
    /\ MainIdle

Next ==
    \/ Begin
    \/ LoopSkip
    \/ LoopEmit
    \/ LoopThrow
    \/ Finish

Spec == Init /\ [][Next]_vars

-----------------------------------------------------------------------------
(* The fixtures-only serializers: convert_fixtures_to_ical of the single   *)
(* file build (variant "fixtures") and create_ical_file of create_ical.ts  *)
(* (variant "create_ical").  They take no location map and no team url.    *)

\* a header that lost its scale line
FixturesHeader_without_scale ==
    << <<"BEGIN:VCALENDAR">>,
       <<"VERSION:2.0">>,
       <<"PRODID:-//MyCodingPartner//PoolFixtures v1.0//EN">> >>

FixturesHeader ==
    << <<"BEGIN:VCALENDAR">>,
       <<"VERSION:2.0">>,
       <<"PRODID:-//MyCodingPartner//PoolFixtures v1.0//EN">>,
       <<"CALSCALE:GREGORIAN">> >>

\* the block with the description line of convert_events_to_ical, given no url
fixture_lines_with_description(uid, summary, location, stamp, dtstart_formatted, dtend_formatted) ==
    << <<"BEGIN:VEVENT">>,
       <<"UID:">> \o uid,
       <<"SUMMARY:">> \o summary,
       <<"LOCATION:">> \o location,
       <<"DESCRIPTION:">> \o <<"undefined">>,
       <<"DTSTAMP:">> \o stamp,
       <<"DTSTART:">> \o dtstart_formatted,
       <<"DTEND:">> \o dtend_formatted,
       <<"END:VEVENT">> >>

\* the lines one ical_lines.push(...) call of the loop appends
fixture_lines(uid, summary, location, stamp, dtstart_formatted, dtend_formatted) ==
    << <<"BEGIN:VEVENT">>,
       <<"UID:">> \o uid,
       <<"SUMMARY:">> \o summary,
       <<"LOCATION:">> \o location,
       <<"DTSTAMP:">> \o stamp,
       <<"DTSTART:">> \o dtstart_formatted,
       <<"DTEND:">> \o dtend_formatted,
       <<"END:VEVENT">> >>

\* if (fixtures.length === 0) { throw new Error("No fixtures were parsed from the HTML."); }
FixturesThrowEmpty ==
    /\ variant = "fixtures"
    /\ pc = "f_start"
    /\ Len(events) = 0
    /\ pc' = "threw_no_fixtures"
    /\ UNCHANGED <<variant, events, location_mapper, team_url, now, idx, dtstamp, ical_lines,
                   emitted, log, ical_string>>
    /\ UNCHANGED <<codecVars, extVars, mainVars>>

\* const crlf, dtstamp, ical_lines = [...]
FixturesBegin ==
    /\ variant = "fixtures"
    /\ pc = "f_start"
    /\ Len(events) # 0
    /\ dtstamp' = format_date_for_ical(now)
    /\ ical_lines' = FixturesHeader
    /\ idx' = 1
    /\ pc' = "f_loop"
    /\ UNCHANGED <<variant, events, location_mapper, team_url, now, emitted, log, ical_string>>
    /\ UNCHANGED <<codecVars, extVars, mainVars>>

\* if (!Array.isArray(fixtures) || fixtures.length === 0) { console.warn(...); return; }
CreateIcalReturnEmpty ==
    /\ variant = "create_ical"
    /\ pc = "f_start"
    /\ Len(events) = 0
    /\ log' = Append(log, "warn_no_fixtures")
    /\ pc' = "returned_no_fixtures"
    /\ UNCHANGED <<variant, events, location_mapper, team_url, now, idx, dtstamp, ical_lines,
                   emitted, ical_string>>
    /\ UNCHANGED <<codecVars, extVars, mainVars>>

\* const crlf, dtstamp, ical_lines = [...]
CreateIcalBegin ==
    /\ variant = "create_ical"
    /\ pc = "f_start"
    /\ Len(events) # 0
    /\ dtstamp' = format_date_for_ical(now)
    /\ ical_lines' = FixturesHeader
    /\ idx' = 1
    /\ pc' = "f_loop"
    /\ UNCHANGED <<variant, events, location_mapper, team_url, now, emitted, log, ical_string>>
    /\ UNCHANGED <<codecVars, extVars, mainVars>>

\* the header lines of convert_fixtures_to_ical of the HTML-to-calendar build
HtmlFixturesHeader ==
    << <<"BEGIN:VCALENDAR">>,
       <<"VERSION:2.0">>,
       <<"PRODID:-//CraigWayne//PoolFixtures v1.0//EN">>,
       <<"CALSCALE:GREGORIAN">> >>

\* if (fixtures.length === 0) { console.warn(...); } const crlf, dtstamp, ical_lines = [...]
HtmlFixturesBegin ==
    /\ variant = "fixtures_html"
    /\ pc = "f_start"
    /\ log' = IF Len(events) = 0 THEN Append(log, "warn_no_fixtures") ELSE log
    /\ dtstamp' = format_date_for_ical(now)
    /\ ical_lines' = HtmlFixturesHeader
    /\ idx' = 1
    /\ pc' = "f_loop"
    /\ UNCHANGED <<variant, events, location_mapper, team_url, now, emitted, ical_string>>
    /\ UNCHANGED <<codecVars, extVars, mainVars>>

\* one iteration: parse_utc_date returned null, the fixture is skipped
FixturesLoopSkip ==
    /\ pc = "f_loop"
    /\ idx <= Len(events)
    /\ parse_utc_date(events[idx].date, events[idx].time) = Null
    /\ log' = Append(log, "warn_skip")
    /\ idx' = idx + 1
    /\ now' = Tick(now)
    /\ UNCHANGED <<variant, events, location_mapper, team_url, pc, dtstamp, ical_lines,
                   emitted, ical_string>>
    /\ UNCHANGED <<codecVars, extVars, mainVars>>

\* one iteration: an event block is pushed
FixturesLoopEmit ==
    /\ pc = "f_loop"
    /\ idx <= Len(events)
    /\ LET fixture == events[idx]
           start_date == parse_utc_date(fixture.date, fixture.time)
       IN /\ start_date # Null
          /\ ~IsNaN(start_date)
          /\ ~IsNaN(end_date_of(start_date))
          /\ \E uid \in uuidv4(UsedUids(emitted)) :
               LET end_date == end_date_of(start_date)
                   dtstart_formatted == format_date_for_ical(start_date)
                   dtend_formatted == format_date_for_ical(end_date)
                   summary == fixture.home_team \o <<" vs ">> \o fixture.away_team
                   location == IF variant = "fixtures_html"
                               THEN resolve_location(location_mapper, fixture.venue)
                               ELSE fixture.venue
               IN /\ ical_lines' = ical_lines \o
                        fixture_lines(uid, summary, location, event_dtstamp(dtstamp, now),
                                      dtstart_formatted, dtend_formatted)
                  /\ emitted' = Append(emitted,
                        [index |-> idx, start_date |-> start_date, end_date |-> end_date,
                         summary |-> summary, location |-> location, uid |-> uid,
                         dtstart |-> dtstart_formatted, dtend |-> dtend_formatted,
                         first_line |-> Len(ical_lines) + 1])
    /\ idx' = idx + 1
    /\ now' = Tick(now)
    /\ UNCHANGED <<variant, events, location_mapper, team_url, pc, dtstamp, log, ical_string>>
    /\ UNCHANGED <<codecVars, extVars, mainVars>>

\* one iteration: toISOString throws a RangeError on an Invalid Date
FixturesLoopThrow ==
    /\ pc = "f_loop"
    /\ idx <= Len(events)
    /\ LET start_date == parse_utc_date(events[idx].date, events[idx].time)
       IN /\ start_date # Null
          /\ IsNaN(start_date) \/ IsNaN(end_date_of(start_date))
    /\ pc' = "threw"
    /\ UNCHANGED <<variant, events, location_mapper, team_url, now, idx, dtstamp, ical_lines,
                   emitted, log, ical_string>>
    /\ UNCHANGED <<codecVars, extVars, mainVars>>

\* ical_lines.push('END:VCALENDAR'); return ical_lines.join(crlf)
FixturesFinish ==
    /\ pc = "f_loop"
    /\ idx > Len(events)
    /\ ical_lines' = close_calendar(ical_lines)
    /\ ical_string' = Join(ical_lines', crlf)
    /\ pc' = "done"
    /\ UNCHANGED <<variant, events, location_mapper, team_url, now, idx, dtstamp, emitted, log>>
    /\ UNCHANGED <<codecVars, extVars, mainVars>>

\* a date whose year, 2000 + 9999, has more than four digits
FarFutureRecord ==
    Fixture(<<"0", "1", "/", "0", "1", "/", "9", "9", "9", "9">>, Time_20_30, Home, Away, ClubA)

\* a plain record, one with the 'N/A' placeholders, one whose day is not a
\* number and one far in the future
SerializerRecords ==
    { Fixture(Date_28_10_25, Time_20_30, Home, Away, ClubA),
      Fixture(<<"N", "/", "A">>, <<"N", "/", "A">>, Home, Away, ClubA),
      Fixture(<<"x", "x", "/", "1", "0", "/", "2", "5">>, Time_20_30, Home, Away, ClubA),
      FarFutureRecord }

\* the three serializers on the same record lists
InitSerializers ==
    /\ variant \in {"events", "fixtures", "create_ical"}
    /\ events \in SeqsUpTo(SerializerRecords, MaxEvents)
    /\ location_mapper \in (IF variant = "events" THEN LocationMappers ELSE {<<>>})
    /\ team_url \in (IF variant = "events" THEN TeamUrls ELSE {<<>>})
    /\ now \in NowValues
    /\ pc = (IF variant = "events" THEN "start" ELSE "f_start")
    /\ idx = 0
    /\ dtstamp = <<>>
    /\ ical_lines = <<>>
    /\ emitted = <<>>
    /\ log = <<>>
    /\ ical_string = <<>>
    /\ CodecIdle
    /\ ExtractorIdle
    /\ MainIdle

NextSerializers ==
    \/ Begin
    \/ LoopSkip
    \/ LoopEmit
    \/ LoopThrow
    \/ Finish
    \/ FixturesThrowEmpty
    \/ FixturesBegin
    \/ CreateIcalReturnEmpty
    \/ CreateIcalBegin
    \/ FixturesLoopSkip
    \/ FixturesLoopEmit
    \/ FixturesLoopThrow
    \/ FixturesFinish

SpecSerializers == InitSerializers /\ [][NextSerializers]_vars

-----------------------------------------------------------------------------
(* The temporal codec on its own: parse_utc_date, the two hour rule and    *)
(* format_date_for_ical applied to one (date, time) pair                   *)

CodecDays == { <<"0", "1">>, <<"0", "5">>, <<"2", "8">>, <<"2", "9">>, <<"3", "0">>, <<"3", "1">>, <<"3", "2">> }
CodecMonths == { <<"0", "1">>, <<"0", "2">>, <<"0", "4">>, <<"1", "2">>, <<"1", "3">> }
CodecYears == { <<"0", "0">>, <<"2", "4">>, <<"2", "5">>, <<"9", "9">>, <<"2", "0", "2", "5">> }
CodecHours == { <<"0", "0">>, <<"2", "0">>, <<"2", "2">>, <<"2", "3">>, <<"2", "4">> }
CodecMinutes == { <<"0", "0">>, <<"3", "0">>, <<"5", "9">> }

\* day/month/year strings, and strings that are not of that shape
CodecDates ==
    { d \o <<"/">> \o m \o <<"/">> \o y : d \in CodecDays, m \in CodecMonths, y \in CodecYears }
    \cup { <<"N", "/", "A">>, <<>>, <<"2", "8", "/", "1", "0">>, <<"d", "d", "/", "m", "m", "/", "y", "y">> }

CodecTimes ==
    { h \o <<":">> \o mi : h \in CodecHours, mi \in CodecMinutes }
    \cup { <<"N", "/", "A">>, <<"2", "0", ":", "3", "0", ":", "0", "0">>, <<"2", "0", ":">> }

SerializerIdle ==
    /\ variant = "idle"
    /\ events = <<>>
    /\ location_mapper = <<>>
    /\ team_url = <<>>
    /\ now = [nan |-> FALSE, day |-> 0, ms |-> 0]
    /\ pc = "idle"
    /\ idx = 0
    /\ dtstamp = <<>>
    /\ ical_lines = <<>>
    /\ emitted = <<>>
    /\ log = <<>>
    /\ ical_string = <<>>

InitCodec ==
    /\ c_date \in CodecDates
    /\ c_time \in CodecTimes
    /\ c_pc = "input"
    /\ c_start = Null
    /\ c_end = Null
    /\ c_text = <<>>
    /\ c_end_text = <<>>
    /\ SerializerIdle
    /\ ExtractorIdle
    /\ MainIdle

\* const start_date = parse_utc_date(date, time)
CodecParse ==
    /\ c_pc = "input"
    /\ c_start' = parse_utc_date(c_date, c_time)
    /\ c_pc' = "parsed"
    /\ UNCHANGED <<c_date, c_time, c_end, c_text, c_end_text>>
    /\ UNCHANGED <<serVars, extVars, mainVars>>

\* if (!start_date) { ...; continue; }
CodecSkip ==
    /\ c_pc = "parsed"
    /\ c_start = Null
    /\ c_pc' = "skipped"
    /\ UNCHANGED <<c_date, c_time, c_start, c_end, c_text, c_end_text>>
    /\ UNCHANGED <<serVars, extVars, mainVars>>

\* end_date, dtstart_formatted and dtend_formatted of a valid start date
CodecFormat ==
    /\ c_pc = "parsed"
    /\ c_start # Null
    /\ ~IsNaN(c_start)
    /\ ~IsNaN(end_date_of(c_start))
    /\ c_end' = end_date_of(c_start)
    /\ c_text' = format_date_for_ical(c_start)
    /\ c_end_text' = format_date_for_ical(c_end')
    /\ c_pc' = "formatted"
    /\ UNCHANGED <<c_date, c_time, c_start>>
    /\ UNCHANGED <<serVars, extVars, mainVars>>

\* toISOString on an Invalid Date throws a RangeError
CodecThrow ==
    /\ c_pc = "parsed"
    /\ c_start # Null
    /\ IsNaN(c_start) \/ IsNaN(end_date_of(c_start))
    /\ c_pc' = "threw"
    /\ UNCHANGED <<c_date, c_time, c_start, c_end, c_text, c_end_text>>
    /\ UNCHANGED <<serVars, extVars, mainVars>>

NextCodec ==
    \/ CodecParse
    \/ CodecSkip
    \/ CodecFormat
    \/ CodecThrow

SpecCodec == InitCodec /\ [][NextCodec]_vars

-----------------------------------------------------------------------------
(* Vocabulary of the properties                                            *)

\* the record a pushed event block was built from
SourceOf(e) == events[e.index]

EmittedIndexes == [k \in 1..Len(emitted) |-> emitted[k].index]

\* the call has ended, by a return or by an exception
Ended == pc \in {"done", "threw"}

PartCountOk(event) ==
    /\ Len(Split(event.date, "/")) = 3
    /\ Len(Split(event.time, ":")) = 2

RECURSIVE IndexesWhere(_, _)
\* the indexes k..Len(events) of the records that pass the part count check, in order
IndexesWhere(k, dummy) ==
    IF k > Len(events) THEN <<>>
    ELSE IF PartCountOk(events[k]) THEN <<k>> \o IndexesWhere(k + 1, dummy)
    ELSE IndexesWhere(k + 1, dummy)

CountLines(line) == Cardinality({k \in 1..Len(ical_lines) : ical_lines[k] = line})

\* every part of the date and time is a number
PartsAreNumbers(event) ==
    /\ \A part \in {Split(event.date, "/")[k] : k \in 1..Len(Split(event.date, "/"))} :
         ~IsNaN(ParseInt(part))
    /\ \A part \in {Split(event.time, ":")[k] : k \in 1..Len(Split(event.time, ":"))} :
         ~IsNaN(ParseInt(part))

\* days from 1970-01-01 to the civil date y-m-d, by the era algorithm
CivilDay(y, m, d) ==
    LET yy == IF m <= 2 THEN y - 1 ELSE y
        era == yy \div 400
        yoe == yy - era * 400
        mp == IF m > 2 THEN m - 3 ELSE m + 9
        doy == ((153 * mp + 2) \div 5) + d - 1
        doe == yoe * 365 + (yoe \div 4) - (yoe \div 100) + doy
    IN era * 146097 + doe - 719468

TwoDigits(s, k) == DigitValue(s[k]) * 10 + DigitValue(s[k + 1])

\* minutes since the epoch that a 16 character YYYYMMDDTHHMMSSZ text denotes
MinutesOfText(text) ==
    CivilDay(TwoDigits(text, 1) * 100 + TwoDigits(text, 3), TwoDigits(text, 5),
             TwoDigits(text, 7)) * 1440
    + TwoDigits(text, 10) * 60 + TwoDigits(text, 12)

IsCompactForm(text) ==
    /\ Len(text) = 16
    /\ text[9] = "T"
    /\ text[16] = "Z"
    /\ \A k \in (1..8) \cup (10..15) : IsDigit(text[k])

LeapYear(y) == (y % 4 = 0 /\ y % 100 # 0) \/ y % 400 = 0

MonthLength(y, m) ==
    IF m = 2 THEN (IF LeapYear(y) THEN 29 ELSE 28)
    ELSE IF m \in {4, 6, 9, 11} THEN 30 ELSE 31

\* date is DD/MM/YY and time is HH:MM, and they name a day and a minute that exist
VendorFormat(date, time) ==
    /\ Len(date) = 8
    /\ Len(time) = 5
    /\ date[3] = "/" /\ date[6] = "/" /\ time[3] = ":"
    /\ \A k \in {1, 2, 4, 5, 7, 8} : IsDigit(date[k])
    /\ \A k \in {1, 2, 4, 5} : IsDigit(time[k])
    /\ TwoDigits(date, 4) \in 1..12
    /\ TwoDigits(date, 1) \in 1..MonthLength(2000 + TwoDigits(date, 7), TwoDigits(date, 4))
    /\ TwoDigits(time, 1) <= 23
    /\ TwoDigits(time, 4) <= 59

-----------------------------------------------------------------------------
(* Properties                                                              *)

\* C1: a record level defect never aborts the batch: the call always returns,
\* and every record whose date and time are well formed numbers is serialized
\* whatever the other records of the list are.
C1_RecordDefectNeverAborts ==
    Ended =>
        /\ pc = "done"
        /\ \A k \in 1..Len(events) :
             (PartCountOk(events[k]) /\ PartsAreNumbers(events[k]))
                => \E n \in 1..Len(emitted) : emitted[n].index = k

\* C2: when the call has ended, the event blocks are exactly the records whose
\* date has 3 '/' parts and whose time has 2 ':' parts, one block each, in
\* list order.
C2_EventIffPartCounts ==
    Ended =>
        /\ EmittedIndexes = IndexesWhere(1, 0)
        /\ CountLines(<<"BEGIN:VEVENT">>) = Len(IndexesWhere(1, 0))
        /\ CountLines(<<"END:VEVENT">>) = Len(IndexesWhere(1, 0))

\* C3: the instant written as DTEND is exactly 120 minutes after the instant
\* written as DTSTART, for every event block.
C3_EndIsStartPlusTwoHours ==
    \A n \in 1..Len(emitted) :
        LET e == emitted[n]
        IN /\ ical_lines[e.first_line + 6] = <<"DTSTART:">> \o e.dtstart
           /\ ical_lines[e.first_line + 7] = <<"DTEND:">> \o e.dtend
           /\ IsCompactForm(e.dtstart)
           /\ IsCompactForm(e.dtend)
           /\ MinutesOfText(e.dtend) = MinutesOfText(e.dtstart) + 120
           /\ (e.end_date.day - e.start_date.day) * msPerDay
                + (e.end_date.ms - e.start_date.ms) = 2 * msPerHour

\* C3 witness: an event that starts at 22:30 on 31 December and ends in the next year
C3_Witness ==
    \E n \in 1..Len(emitted) :
        /\ SubSeq(emitted[n].dtstart, 1, 8) = <<"2", "0", "2", "5", "1", "2", "3", "1">>
        /\ SubSeq(emitted[n].dtend, 1, 8) = <<"2", "0", "2", "6", "0", "1", "0", "1">>

\* C4: for a DD/MM/YY date and HH:MM time, parse_utc_date then
\* format_date_for_ical gives "20" YY MM DD "T" HH MM "00Z".
C4_ParseFormatRoundTrip ==
    (c_pc \in {"parsed", "formatted", "skipped", "threw"} /\ VendorFormat(c_date, c_time)) =>
        /\ c_pc \in {"parsed", "formatted"}
        /\ c_pc = "formatted" =>
             c_text = <<"2", "0">> \o SubSeq(c_date, 7, 8) \o SubSeq(c_date, 4, 5)
                        \o SubSeq(c_date, 1, 2) \o <<"T">> \o SubSeq(c_time, 1, 2)
                        \o SubSeq(c_time, 4, 5) \o <<"0", "0", "Z">>

\* C4 witness: the leap day 29/02/24 at 23:59 has been parsed and formatted
C4_Witness ==
    /\ c_pc = "formatted"
    /\ c_date = <<"2", "9", "/", "0", "2", "/", "2", "4">>
    /\ c_time = <<"2", "3", ":", "5", "9">>
    /\ c_text = <<"2", "0", "2", "4", "0", "2", "2", "9", "T", "2", "3", "5", "9", "0", "0", "Z">>

\* C5 as stated: parse_utc_date returns an instant only for a strict DD/MM/YY
\* date, and every instant it returns lies in the years 2000 to 2099.
C5_OnlyStrictDatesWithin2000To2099 ==
    (c_pc # "input" /\ c_start # Null /\ ~IsNaN(c_start)) =>
        /\ Len(c_date) = 8
        /\ \A k \in {1, 2, 4, 5, 7, 8} : IsDigit(c_date[k])
        /\ CivilDay(2000, 1, 1) <= c_start.day
        /\ c_start.day < CivilDay(2100, 1, 1)

\* C5 amended: for a DD/MM/YY date and HH:MM time that name an existing day
\* and minute, parse_utc_date returns the instant of year 2000 + YY, month MM,
\* day DD, hour HH, minute MM read as UTC, which lies in the years 2000 to 2099.
C5_ValidDatesBuiltLiterally ==
    (c_pc # "input" /\ c_pc # "idle" /\ VendorFormat(c_date, c_time)) =>
        /\ c_start # Null
        /\ ~IsNaN(c_start)
        /\ c_start.day = CivilDay(2000 + TwoDigits(c_date, 7), TwoDigits(c_date, 4),
                                  TwoDigits(c_date, 1))
        /\ c_start.ms = (TwoDigits(c_time, 1) * 60 + TwoDigits(c_time, 4)) * msPerMinute
        /\ CivilDay(2000, 1, 1) <= c_start.day
        /\ c_start.day < CivilDay(2100, 1, 1)

\* C5 witness: 31/12/99 23:59 has been parsed, to the last minute of 2099
C5_Witness ==
    /\ c_pc = "parsed"
    /\ c_date = <<"3", "1", "/", "1", "2", "/", "9", "9">>
    /\ c_time = <<"2", "3", ":", "5", "9">>
    /\ c_start = [nan |-> FALSE, day |-> CivilDay(2100, 1, 1) - 1, ms |-> msPerDay - msPerMinute]

\* C6: when the lower cased venue is not a key of the location map, the
\* LOCATION line of the event holds the raw venue.
C6_UnmappedVenueWrittenUnchanged ==
    \A n \in 1..Len(emitted) :
        ToLowerCase(SourceOf(emitted[n]).venue) \notin DOMAIN location_mapper
            => ical_lines[emitted[n].first_line + 3]
                 = <<"LOCATION:">> \o SourceOf(emitted[n]).venue

C8_LocationEmptyOnlyForEmptyVenue ==
    /\ pc = "threw" => ~(PartCountOk(events[idx]) /\ PartsAreNumbers(events[idx]))
    /\ \A n \in 1..Len(emitted) :
         ical_lines[emitted[n].first_line + 3] = <<"LOCATION:">>
            => SourceOf(emitted[n]).venue = <<>>

\* C8 witness: a venue mapped to the empty string is written as the raw venue
C8_Witness ==
    \E n \in 1..Len(emitted) :
        /\ ToLowerCase(SourceOf(emitted[n]).venue) \in DOMAIN location_mapper
        /\ location_mapper[ToLowerCase(SourceOf(emitted[n]).venue)] = <<>>
        /\ SourceOf(emitted[n]).venue # <<>>
        /\ emitted[n].location = SourceOf(emitted[n]).venue

\* C9 as stated: the SUMMARY line is '{home} {result} {away}' for a record that
\* carries a result string and '{home} vs {away}' for one that carries none.
C9_SummaryByResultProperty ==
    \A n \in 1..Len(emitted) :
        LET event == SourceOf(emitted[n])
        IN ical_lines[emitted[n].first_line + 2]
             = <<"SUMMARY:">> \o
               (IF "result" \in DOMAIN event
                THEN event.home_team \o <<" ">> \o event.result \o <<" ">> \o event.away_team
                ELSE event.home_team \o <<" vs ">> \o event.away_team)

\* C9 amended: the SUMMARY line is '{home} {result} {away}' for a record whose
\* result string is not empty, and '{home} vs {away}' for a record without a
\* result or with an empty result string.
C9_SummaryByNonEmptyResult ==
    \A n \in 1..Len(emitted) :
        LET event == SourceOf(emitted[n])
            filled == IF "result" \in DOMAIN event THEN event.result # <<>> ELSE FALSE
        IN ical_lines[emitted[n].first_line + 2]
             = <<"SUMMARY:">> \o
               (IF filled
                THEN event.home_team \o <<" ">> \o event.result \o <<" ">> \o event.away_team
                ELSE event.home_team \o <<" vs ">> \o event.away_team)

\* C9 witness: a call that wrote 'SUMMARY:Home 3-1 Away' and 'SUMMARY:Home vs Away'
C9_Witness ==
    /\ \E k \in 1..Len(ical_lines) :
         ical_lines[k] = <<"SUMMARY:", "H", "o", "m", "e", " ", "3", "-", "1", " ",
                           "A", "w", "a", "y">>
    /\ \E k \in 1..Len(ical_lines) :
         ical_lines[k] = <<"SUMMARY:", "H", "o", "m", "e", " vs ", "A", "w", "a", "y">>

\* C10: in the returned text every line feed follows a carriage return and
\* every carriage return is followed by a line feed.
C10_OnlyCrlfLineBreaks ==
    pc = "done" =>
        \A k \in 1..Len(ical_string) :
            /\ ical_string[k] = LF => (k > 1 /\ ical_string[k - 1] = CR)
            /\ ical_string[k] = CR => (k < Len(ical_string) /\ ical_string[k + 1] = LF)

-----------------------------------------------------------------------------
(* Properties of the three serializers (SpecSerializers)                   *)

\* the call has ended: by a return, by a RangeError, or at the empty list
EndedAny == pc \in {"done", "threw", "threw_no_fixtures", "returned_no_fixtures"}

\* the empty list, or a list whose records all fail the part count check
NoValidRecord == \A k \in 1..Len(events) : ~PartCountOk(events[k])

\* the positions in text where a CR LF pair starts
CrlfPositions(text) ==
    {k \in 1..(Len(text) - 1) : text[k] = CR /\ text[k + 1] = LF}

\* text.split('\r\n'): the n-th line runs from behind the (n-1)-th pair to
\* before the n-th pair (a CR LF pair cannot overlap another one)
SplitCrlf(text) ==
    LET breaks == CrlfPositions(text)
        nth(n) == CHOOSE k \in breaks : Cardinality({j \in breaks : j < k}) = n - 1
    IN [n \in 1..(Cardinality(breaks) + 1) |->
          SubSeq(text,
                 IF n = 1 THEN 1 ELSE nth(n - 1) + 2,
                 IF n = Cardinality(breaks) + 1 THEN Len(text) ELSE nth(n) - 1)]

\* the lines of the returned text, as a reader that breaks at CR LF sees them
DocumentLines == SplitCrlf(ical_string)

ProductLines ==
    { <<"PRODID:-//CraigWayne//PoolFixtures v1.0//EN">>,
      <<"PRODID:-//MyCodingPartner//PoolFixtures v1.0//EN">> }

\* a complete document that holds no event
IsEnvelopeOnly(lines) ==
    /\ Len(lines) = 5
    /\ lines[1] = <<"BEGIN:VCALENDAR">>
    /\ lines[2] = <<"VERSION:2.0">>
    /\ lines[3] \in ProductLines
    /\ lines[4] = <<"CALSCALE:GREGORIAN">>
    /\ lines[5] = <<"END:VCALENDAR">>

\* C11 as stated: a call on a list with no valid record (the empty list, or
\* records that all fail the part count check) returns a complete document:
\* BEGIN:VCALENDAR, the version, product and scale lines, END:VCALENDAR and
\* no event block.
C11_NoValidRecordGivesEnvelope ==
    (EndedAny /\ NoValidRecord) => (pc = "done" /\ IsEnvelopeOnly(DocumentLines))

\* C11 amended: a call on a list with no valid record returns that complete
\* event-free document, except that on the empty list convert_fixtures_to_ical
\* of the single file build throws 'No fixtures were parsed' and
\* create_ical_file warns and returns, both without any document.
C11_NoValidRecordGivesEnvelopeUnlessEmptyRejected ==
    (EndedAny /\ NoValidRecord) =>
        IF Len(events) = 0 /\ variant = "fixtures"
        THEN pc = "threw_no_fixtures" /\ ical_string = <<>>
        ELSE IF Len(events) = 0 /\ variant = "create_ical"
        THEN pc = "returned_no_fixtures" /\ ical_string = <<>>
        ELSE pc = "done" /\ IsEnvelopeOnly(DocumentLines)

\* C11 witness: convert_fixtures_to_ical returned on a list of records that
\* all fail the part count check
C11_Witness ==
    /\ variant = "fixtures"
    /\ pc = "done"
    /\ Len(events) >= 1
    /\ NoValidRecord

\* the line starts with the source literal `name` ('UID:', 'DTSTART:', ...)
HasName(line, name) == Len(line) >= 1 /\ line[1] = name

\* the text after the name of a line
ValueOf(line) == Tail(line)

\* lines b..e form one block: BEGIN:VEVENT, END:VEVENT, no other BEGIN or END
\* between them, one line of each required name, the three times in compact form
IsEventBlock(lines, b, e) ==
    /\ lines[b] = <<"BEGIN:VEVENT">>
    /\ lines[e] = <<"END:VEVENT">>
    /\ \A k \in (b + 1)..(e - 1) :
         lines[k] # <<"BEGIN:VEVENT">> /\ lines[k] # <<"END:VEVENT">>
    /\ \A name \in {"UID:", "SUMMARY:", "LOCATION:", "DTSTAMP:", "DTSTART:", "DTEND:"} :
         Cardinality({k \in (b + 1)..(e - 1) : HasName(lines[k], name)}) = 1
    /\ \A k \in (b + 1)..(e - 1) :
         (\E name \in {"DTSTAMP:", "DTSTART:", "DTEND:"} : HasName(lines[k], name))
            => IsCompactForm(ValueOf(lines[k]))

\* C12: in a returned document every event is one block BEGIN:VEVENT ...
\* END:VEVENT holding exactly one UID, SUMMARY, LOCATION, DTSTAMP, DTSTART and
\* DTEND line, the three times in the 16 character form YYYYMMDDTHHMMSSZ;
\* blocks are not nested and lie between the header and END:VCALENDAR.
C12_EventBlocksWellFormed ==
    pc = "done" =>
        LET lines == DocumentLines
            last == Len(lines)
        IN /\ last >= 5
           /\ lines[1] = <<"BEGIN:VCALENDAR">>
           /\ lines[last] = <<"END:VCALENDAR">>
           /\ \A b \in 1..last :
                lines[b] = <<"BEGIN:VEVENT">> =>
                    /\ b >= 5
                    /\ \E e \in (b + 1)..(last - 1) : IsEventBlock(lines, b, e)
           /\ \A e \in 1..last :
                lines[e] = <<"END:VEVENT">> =>
                    \E b \in 5..(e - 1) : IsEventBlock(lines, b, e)
           /\ Cardinality({b \in 1..last : lines[b] = <<"BEGIN:VEVENT">>}) = Len(emitted)

\* the UID lines of the document built so far, in order
UidLines == SelectSeq(ical_lines, LAMBDA line : HasName(line, "UID:"))

StampLines == SelectSeq(ical_lines, LAMBDA line : HasName(line, "DTSTAMP:"))

\* C14: all events written by one call carry the same DTSTAMP value, the one
\* taken once before the loop, however long the loop runs.
C14_OneStampPerCall ==
    /\ Len(StampLines) = Len(emitted)
    /\ \A i \in 1..Len(StampLines) :
         /\ StampLines[i] = StampLines[1]
         /\ ValueOf(StampLines[i]) = dtstamp
         /\ IsCompactForm(dtstamp)

\* C14 witness: a returned document with two blocks; the clock read after the
\* second block no longer gives the stamp they carry
C14_Witness ==
    /\ pc = "done"
    /\ Len(StampLines) = 2
    /\ format_date_for_ical(now) # ValueOf(StampLines[2])

\* C15: on the empty list a serializer either returns the envelope-only
\* document with no event, or signals 'no input' (an Error thrown, or a
\* warning and a return) without any document; no variant writes a
\* placeholder event or a partial document.
C15_EmptyListEnvelopeOrNoInput ==
    Len(events) = 0 =>
        /\ \A k \in 1..Len(ical_lines) : ical_lines[k] # <<"BEGIN:VEVENT">>
        /\ EndedAny =>
             \/ /\ pc = "done"
                /\ IsEnvelopeOnly(DocumentLines)
                /\ emitted = <<>>
             \/ /\ pc = "threw_no_fixtures"
                /\ ical_lines = <<>>
                /\ ical_string = <<>>
             \/ /\ pc = "returned_no_fixtures"
                /\ log = <<"warn_no_fixtures">>
                /\ ical_lines = <<>>
                /\ ical_string = <<>>

\* C15 witness: convert_events_to_ical returned on the empty list, after its warning
C15_Witness ==
    /\ variant = "events"
    /\ Len(events) = 0
    /\ pc = "done"
    /\ log = <<"warn_no_events">>

\* the DESCRIPTION lines of the document built so far, in order
DescriptionLines == SelectSeq(ical_lines, LAMBDA line : HasName(line, "DESCRIPTION:"))

-----------------------------------------------------------------------------
(* The extractor and normalizer: parse_fixtures of the multi-team build    *)
(* (parser "fixtures"), parse_results (parser "results") and parse_fixtures*)
(* of the HTML to JSON script (parser "fixtures_ts").                      *)
(*                                                                         *)
(* html_content is modelled by the document cheerio.load builds from it:   *)
(* [empty |-> the text is the empty string, tables |-> its <table>s in     *)
(* document order], a table being [fixed |-> it has class 'fixed', rows |->*)
(* the <tr> of its <tbody>] and a row the sequence of its <td> cells.  A   *)
(* cell is its inner markup: pieces that are one character of text or one  *)
(* tag as .html() serializes it.                                           *)

Tags == {"<br>", "<b>", "</b>"}

\* $(cell).html()
Html(cell) == cell

\* $(cell).text(): the text nodes without the tags
Text(cell) == SelectSeq(cell, LAMBDA piece : piece \notin Tags)

\* String.prototype.trimStart in the place of trim
Trim_start_only(s) ==
    LET keep == {k \in 1..Len(s) : s[k] \notin WhiteSpace}
    IN IF keep = {} THEN <<>>
       ELSE SubSeq(s, CHOOSE k \in keep : \A j \in keep : k <= j, Len(s))

\* String.prototype.trim
Trim(s) ==
    LET keep == {k \in 1..Len(s) : s[k] \notin WhiteSpace}
    IN IF keep = {} THEN <<>>
       ELSE SubSeq(s, CHOOSE k \in keep : \A j \in keep : k <= j,
                      CHOOSE k \in keep : \A j \in keep : k >= j)

\* .replace(/\s/g, '')
RemoveWhiteSpace(s) == SelectSeq(s, LAMBDA c : c \notin WhiteSpace)

\* a part taken as it is, without the placeholder
part_or_na_without_placeholder(date_time_parts, n) ==
    IF n <= Len(date_time_parts) THEN date_time_parts[n] ELSE <<>>

\* date_time_parts[n - 1] || 'N/A'
part_or_na(date_time_parts, n) ==
    IF n <= Len(date_time_parts) /\ date_time_parts[n] # <<>>
    THEN date_time_parts[n]
    ELSE <<"N", "/", "A">>

\* date_time_html.split('<br>').map(s => s.trim()) and the two fields read from it
normalize_date_time(date_time_html) ==
    LET split_parts == Split(date_time_html, "<br>")
        date_time_parts == [k \in 1..Len(split_parts) |-> Trim(split_parts[k])]
    IN [date |-> part_or_na(date_time_parts, 1), time |-> part_or_na(date_time_parts, 2)]

RECURSIVE RowsOf(_)
\* the rows of the tables, in document order
RowsOf(tables) ==
    IF tables = <<>> THEN <<>> ELSE Head(tables).rows \o RowsOf(Tail(tables))

\* a selector that takes the rows of every table
table_rows_of_any_table(p, document) == RowsOf(document.tables)

\* $('table:not(.fixed) tbody tr'), $('table.fixed tbody tr'), $('tbody tr')
table_rows_of(p, document) ==
    IF p = "fixtures" THEN RowsOf(SelectSeq(document.tables, LAMBDA t : ~t.fixed))
    ELSE IF p = "results" THEN RowsOf(SelectSeq(document.tables, LAMBDA t : t.fixed))
    ELSE RowsOf(document.tables)

\* one cell count for both kinds of table
min_cells_same_for_results(p) == IF p = "results" THEN 6 ELSE 6

\* if (cells.length < 6), if (cells.length < 5) in parse_results
min_cells(p) == IF p = "results" THEN 5 ELSE 6

\* the object pushed for a row, with the venue of a result read from a sixth cell
make_record_result_with_venue(p, cells) ==
    LET date_time == normalize_date_time(Html(cells[2]))
        home_team == Trim(Text(cells[3]))
        away_team == Trim(Text(cells[5]))
    IN IF p = "results"
       THEN ResultRecord(date_time.date, date_time.time, home_team, away_team,
                         IF Len(cells) >= 6 THEN Trim(Text(cells[6])) ELSE <<>>,
                         RemoveWhiteSpace(Trim(Text(cells[4]))))
       ELSE Fixture(date_time.date, date_time.time, home_team, away_team,
                    Trim(Text(cells[6])))

\* the object pushed for a row, with the away team read from the cell before it
make_record_away_from_separator(p, cells) ==
    LET date_time == normalize_date_time(Html(cells[2]))
        home_team == Trim(Text(cells[3]))
        away_team == Trim(Text(cells[4]))
    IN IF p = "results"
       THEN ResultRecord(date_time.date, date_time.time, home_team, away_team, <<>>,
                         RemoveWhiteSpace(Trim(Text(cells[4]))))
       ELSE Fixture(date_time.date, date_time.time, home_team, away_team,
                    Trim(Text(cells[6])))

\* the object pushed for a row
make_record(p, cells) ==
    LET date_time == normalize_date_time(Html(cells[2]))
        home_team == Trim(Text(cells[3]))
        away_team == Trim(Text(cells[5]))
    IN IF p = "results"
       THEN ResultRecord(date_time.date, date_time.time, home_team, away_team, <<>>,
                         RemoveWhiteSpace(Trim(Text(cells[4]))))
       ELSE Fixture(date_time.date, date_time.time, home_team, away_team,
                    Trim(Text(cells[6])))

Warning(msg, row) == [msg |-> msg, row |-> row]

\* a return without the warning
warn_no_rows_silent(console) == console

\* console.warn('No fixture rows found in the table body.')
warn_no_rows(console) == Append(console, Warning("warn_no_rows", 0))

\* if (!html_content) { throw new Error('No HTML content provided.'); }
ParseThrowNoContent ==
    /\ x_pc = "start"
    /\ parser \in {"fixtures", "results"}
    /\ html_content.empty
    /\ x_pc' = "threw_no_content"
    /\ UNCHANGED <<parser, html_content, table_rows, index, fixtures, warnings>>
    /\ UNCHANGED <<serVars, codecVars, mainVars>>

\* if (!html_content) { console.error("No HTML content provided."); return []; }
ParseReturnNoContent ==
    /\ x_pc = "start"
    /\ parser = "fixtures_ts"
    /\ html_content.empty
    /\ warnings' = Append(warnings, Warning("error_no_content", 0))
    /\ x_pc' = "returned"
    /\ UNCHANGED <<parser, html_content, table_rows, index, fixtures>>
    /\ UNCHANGED <<serVars, codecVars, mainVars>>

\* if (table_rows.length === 0) { console.warn('No fixture rows found ...'); return []; }
ParseNoRows ==
    /\ x_pc = "start"
    /\ ~html_content.empty
    /\ table_rows_of(parser, html_content) = <<>>
    /\ warnings' = warn_no_rows(warnings)
    /\ x_pc' = "returned"
    /\ UNCHANGED <<parser, html_content, table_rows, index, fixtures>>
    /\ UNCHANGED <<serVars, codecVars, mainVars>>

\* const table_rows = $(...); table_rows.each(...) starts
ParseEach ==
    /\ x_pc = "start"
    /\ ~html_content.empty
    /\ table_rows_of(parser, html_content) # <<>>
    /\ table_rows' = table_rows_of(parser, html_content)
    /\ index' = 0
    /\ x_pc' = "each"
    /\ UNCHANGED <<parser, html_content, fixtures, warnings>>
    /\ UNCHANGED <<serVars, codecVars, mainVars>>

\* the callback on a row with too few cells
RowSkipCells ==
    /\ x_pc = "each"
    /\ index < Len(table_rows)
    /\ Len(table_rows[index + 1]) < min_cells(parser)
    /\ warnings' = Append(warnings, Warning("skip_incomplete", index + 1))
    /\ index' = index + 1
    /\ UNCHANGED <<parser, html_content, x_pc, table_rows, fixtures>>
    /\ UNCHANGED <<serVars, codecVars, mainVars>>

\* the callback on a row whose date/time cell has no markup
RowSkipDateTime ==
    /\ x_pc = "each"
    /\ index < Len(table_rows)
    /\ Len(table_rows[index + 1]) >= min_cells(parser)
    /\ Html(table_rows[index + 1][2]) = <<>>
    /\ warnings' = Append(warnings, Warning("skip_no_date_time", index + 1))
    /\ index' = index + 1
    /\ UNCHANGED <<parser, html_content, x_pc, table_rows, fixtures>>
    /\ UNCHANGED <<serVars, codecVars, mainVars>>

\* the callback on any other row: a record is pushed
RowPush ==
    /\ x_pc = "each"
    /\ index < Len(table_rows)
    /\ Len(table_rows[index + 1]) >= min_cells(parser)
    /\ Html(table_rows[index + 1][2]) # <<>>
    /\ fixtures' = Append(fixtures, make_record(parser, table_rows[index + 1]))
    /\ index' = index + 1
    /\ UNCHANGED <<parser, html_content, x_pc, table_rows, warnings>>
    /\ UNCHANGED <<serVars, codecVars, mainVars>>

\* return fixtures
ParseReturn ==
    /\ x_pc = "each"
    /\ index = Len(table_rows)
    /\ x_pc' = "returned"
    /\ UNCHANGED <<parser, html_content, table_rows, index, fixtures, warnings>>
    /\ UNCHANGED <<serVars, codecVars, mainVars>>

-----------------------------------------------------------------------------
(* Inputs of the extractor                                                 *)

\* date/time cells: '28/10/25<br>20:30', the same with white space around the
\* parts, without a date, of white space only, with a third part, and empty
DateTimeFull == <<"2", "8", "/", "1", "0", "/", "2", "5", "<br>", "2", "0", ":", "3", "0">>
DateTimePadded == <<" ", "2", "8", "/", "1", "0", "/", "2", "5", " ", "<br>", "\n", " ", "2", "0", ":", "3", "0", " ">>
DateTimeNoDate == <<"<br>", "2", "0", ":", "3", "0">>
DateTimeBlank == <<" ">>
DateTimeThreeParts == <<"2", "8", "/", "1", "0", "/", "2", "5", "<br>", "2", "0", ":", "3", "0", "<br>", "p", "m">>
DateTimeOnlyDate == <<"2", "8", "/", "1", "0", "/", "2", "5">>

\* a fixtures row: position, date/time, home team, separator, away team, venue
FixtureRow(date_time) ==
    << <<"1">>, date_time, <<" ", "<b>", "H", "o", "m", "e", "</b>", " ">>, <<"v">>, <<"A", "w", "a", "y">>, <<" ", "C", "l", "u", "b", " ", "A">> >>

\* a results row: position, date/time, home team, result, away team
ResultRow ==
    << <<"1">>, DateTimeFull, <<"H", "o", "m", "e">>, <<" ", "3", " ", "-", " ", "1", " ">>, <<"A", "w", "a", "y">> >>

\* the row of the scenario: '', '28/10/25<br>20:30', 'Railway', '-', 'Dragons', 'Club A'
RailwayRow ==
    << <<>>, DateTimeFull, <<"R", "a", "i", "l", "w", "a", "y">>, <<"-">>, <<"D", "r", "a", "g", "o", "n", "s">>, <<"C", "l", "u", "b", " ", "A">> >>

\* a row with four cells
ShortRow == << <<"1">>, DateTimeFull, <<"H", "o", "m", "e">>, <<"v">> >>

\* a row of six cells whose team and venue cells are empty and whose time is missing
EmptyTeamsRow == << <<>>, DateTimeOnlyDate, <<>>, <<>>, <<>>, <<>> >>

Rows ==
    { FixtureRow(DateTimeFull), FixtureRow(DateTimePadded), FixtureRow(DateTimeNoDate),
      FixtureRow(DateTimeBlank), FixtureRow(DateTimeThreeParts), FixtureRow(<<>>),
      ResultRow, RailwayRow, ShortRow, EmptyTeamsRow }

\* most rows in the body of one table
MaxRows == 2

Table(fixed, rows) == [fixed |-> fixed, rows |-> rows]

\* the empty text; a text without any table; one table, of either class, also
\* with an empty or missing body; a results table followed by a fixtures table
Documents ==
    { [empty |-> TRUE, tables |-> <<>>], [empty |-> FALSE, tables |-> <<>>] }
    \cup { [empty |-> FALSE, tables |-> << Table(fixed, rows) >>] :
              fixed \in BOOLEAN, rows \in SeqsUpTo(Rows, MaxRows) }
    \cup { [empty |-> FALSE, tables |-> << Table(TRUE, << ResultRow >>), Table(FALSE, rows) >>] :
              rows \in SeqsUpTo(Rows, MaxRows) }

InitExtractor ==
    /\ parser \in {"fixtures", "results", "fixtures_ts"}
    /\ html_content \in Documents
    /\ x_pc = "start"
    /\ table_rows = <<>>
    /\ index = 0
    /\ fixtures = <<>>
    /\ warnings = <<>>
    /\ SerializerIdle
    /\ CodecIdle
    /\ MainIdle

NextExtractor ==
    \/ ParseThrowNoContent
    \/ ParseReturnNoContent
    \/ ParseNoRows
    \/ ParseEach
    \/ RowSkipCells
    \/ RowSkipDateTime
    \/ RowPush
    \/ ParseReturn

SpecExtractor == InitExtractor /\ [][NextExtractor]_vars

-----------------------------------------------------------------------------
(* Properties of the extractor (SpecExtractor)                             *)

\* the row is one the claim says is skipped: fewer cells than the table kind
\* needs (6 for fixtures, 5 for results) or no markup in the cell of index 1
IsSkippedRow(p, row) ==
    \/ Len(row) < (IF p = "results" THEN 5 ELSE 6)
    \/ row[2] = <<>>

RECURSIVE KeptRows(_, _, _)
\* the rows among the first n that are not skipped, in document order
KeptRows(p, rows, n) ==
    IF n = 0 THEN <<>>
    ELSE IF IsSkippedRow(p, rows[n]) THEN KeptRows(p, rows, n - 1)
    ELSE Append(KeptRows(p, rows, n - 1), rows[n])

\* the warnings about skipped rows, in order
SkipWarnings ==
    SelectSeq(warnings, LAMBDA w : w.msg \in {"skip_incomplete", "skip_no_date_time"})

\* C17: the extractor skips a row exactly when it has fewer cells than the
\* minimum (6 for fixtures, 5 for results) or its date/time cell has empty
\* markup; every other row yields a record, also with empty team or venue
\* cells; a skip does not stop the loop; the output holds one record per row
\* that was not skipped, in document order.
C17_OneRecordPerRowNotSkipped ==
    x_pc \in {"each", "returned"} =>
        LET kept == KeptRows(parser, table_rows, index)
        IN /\ fixtures = [k \in 1..Len(kept) |-> make_record(parser, kept[k])]
           /\ Len(SkipWarnings) = index - Len(kept)
           /\ x_pc = "returned" => index = Len(table_rows)

\* C17 witness: parse_fixtures returned one record, with empty teams and venue,
\* for a body whose first row has four cells and whose second row is complete
C17_Witness ==
    /\ parser = "fixtures"
    /\ x_pc = "returned"
    /\ table_rows = << ShortRow, EmptyTeamsRow >>
    /\ Len(fixtures) = 1
    /\ fixtures[1].home_team = <<>>
    /\ fixtures[1].venue = <<>>

\* the extractor has ended, by a return or by the 'No HTML content' Error
ExtractorEnded == x_pc \in {"returned", "threw_no_content"}

\* the table is one whose body rows the selector of parser p matches
SelectorMatches(p, table) ==
    /\ p = "fixtures" => ~table.fixed
    /\ p = "results" => table.fixed

\* the document holds no table-body row that the selector of parser p matches
NoMatchingRows(p, document) ==
    \A k \in 1..Len(document.tables) :
        SelectorMatches(p, document.tables[k]) => document.tables[k].rows = <<>>

\* C18 as stated: for every text without a matching table-body row (no table,
\* no body rows, or the empty text) the extractor returns the empty sequence
\* and raises no error.
C18_NoMatchingRowsReturnsEmpty ==
    (ExtractorEnded /\ NoMatchingRows(parser, html_content)) =>
        (x_pc = "returned" /\ fixtures = <<>>)

\* C18 amended: for every non-empty text without a matching table-body row the
\* extractor warns once and returns the empty sequence; on the empty text
\* parse_fixtures of the multi-team build and parse_results throw 'No HTML
\* content provided.', and only parse_fixtures of the HTML to JSON script
\* logs the error and returns the empty sequence.
C18_NoMatchingRowsReturnsEmptyUnlessNoContent ==
    (ExtractorEnded /\ NoMatchingRows(parser, html_content)) =>
        IF html_content.empty /\ parser \in {"fixtures", "results"}
        THEN x_pc = "threw_no_content" /\ warnings = <<>>
        ELSE /\ x_pc = "returned"
             /\ fixtures = <<>>
             /\ warnings = << Warning(IF html_content.empty THEN "error_no_content"
                                      ELSE "warn_no_rows", 0) >>

\* C18 witness: parse_fixtures returned the empty sequence for a document
\* whose only table is a results table with rows
C18_Witness ==
    /\ parser = "fixtures"
    /\ x_pc = "returned"
    /\ Len(html_content.tables) = 1
    /\ html_content.tables[1].fixed
    /\ html_content.tables[1].rows # <<>>
    /\ fixtures = <<>>

\* what the caller of the extractor gets: how the call ended and the value returned
CallerReceives == [outcome |-> x_pc, value |-> fixtures]

\* what the caller gets when rows were found and every one was skipped
AllSkippedReceives == [outcome |-> "returned", value |-> <<>>]

\* rows were found and every one of them is a row the extractor skips
AllRowsSkipped ==
    /\ table_rows # <<>>
    /\ \A k \in 1..Len(table_rows) : IsSkippedRow(parser, table_rows[k])

\* C19 as stated: when the document holds no rows at all, the caller of the
\* extractor receives a failure signal that differs from what it receives
\* when rows were found but every one was skipped.
C19_NoRowsSignalDiffersFromAllSkipped ==
    (ExtractorEnded /\ NoMatchingRows(parser, html_content)) =>
        CallerReceives # AllSkippedReceives

\* C19 amended: for a non-empty text the caller receives the same empty
\* sequence when no rows were found as when rows were found and all were
\* skipped; the two cases differ only on the console, one 'No fixture rows
\* found' warning against one 'Skipping row n' warning per row; and the
\* empty sequence is returned in no other case.
C19_NoRowsAndAllSkippedDifferOnlyInWarnings ==
    (ExtractorEnded /\ ~html_content.empty) =>
        /\ NoMatchingRows(parser, html_content) =>
             /\ CallerReceives = AllSkippedReceives
             /\ warnings = << Warning("warn_no_rows", 0) >>
        /\ AllRowsSkipped =>
             /\ CallerReceives = AllSkippedReceives
             /\ Len(warnings) = Len(table_rows)
             /\ \A k \in 1..Len(warnings) :
                  /\ warnings[k].msg \in {"skip_incomplete", "skip_no_date_time"}
                  /\ warnings[k].row = k
        /\ CallerReceives = AllSkippedReceives =>
             (NoMatchingRows(parser, html_content) \/ AllRowsSkipped)

\* C19 witness: parse_results returned the empty sequence after skipping both
\* rows it found
C19_Witness ==
    /\ parser = "results"
    /\ x_pc = "returned"
    /\ Len(table_rows) = 2
    /\ fixtures = <<>>
    /\ Len(warnings) = 2

RECURSIVE Stripped(_)
\* s without the white space at its two ends
Stripped(s) ==
    IF s # <<>> /\ Head(s) \in WhiteSpace THEN Stripped(Tail(s))
    ELSE IF s # <<>> /\ s[Len(s)] \in WhiteSpace THEN Stripped(SubSeq(s, 1, Len(s) - 1))
    ELSE s

\* the positions of the line-break marker in the markup
BreakPositions(markup) == {k \in 1..Len(markup) : markup[k] = "<br>"}

\* the n-th line break of the markup, or one past its end when there is none
NthBreak(markup, n) ==
    IF Cardinality(BreakPositions(markup)) < n THEN Len(markup) + 1
    ELSE CHOOSE k \in BreakPositions(markup) :
            Cardinality({j \in BreakPositions(markup) : j < k}) = n - 1

\* the field a part of the markup gives: the part without the white space
\* around it, or 'N/A' when nothing is left
FieldOf(part) == IF Stripped(part) = <<>> THEN <<"N", "/", "A">> ELSE Stripped(part)

\* the date: what stands before the first line break
ExpectedDate(markup) == FieldOf(SubSeq(markup, 1, NthBreak(markup, 1) - 1))

\* the time: what stands between the first line break and the second one (or
\* the end); 'N/A' when the markup has no line break
ExpectedTime(markup) ==
    FieldOf(SubSeq(markup, NthBreak(markup, 1) + 1, NthBreak(markup, 2) - 1))

\* C20: the date/time markup is split at the line-break marker into the date
\* and the time, each trimmed; a part that is missing or empty gives the
\* literal 'N/A' in that field, and the row still yields its record.
C20_DateTimeSplitTrimmedOrPlaceholder ==
    x_pc \in {"each", "returned"} =>
        LET kept == KeptRows(parser, table_rows, index)
        IN /\ Len(fixtures) = Len(kept)
           /\ \A k \in 1..Len(fixtures) :
                /\ fixtures[k].date = ExpectedDate(kept[k][2])
                /\ fixtures[k].time = ExpectedTime(kept[k][2])

\* C20 witness: a returned record with date 'N/A' and time '20:30', from the
\* markup '<br>20:30', after a record with date '28/10/25' and time '20:30'
\* from markup with white space around both parts
C20_Witness ==
    /\ x_pc = "returned"
    /\ table_rows = << FixtureRow(DateTimePadded), FixtureRow(DateTimeNoDate) >>
    /\ Len(fixtures) = 2
    /\ fixtures[1].date = Date_28_10_25
    /\ fixtures[1].time = Time_20_30
    /\ fixtures[2].date = <<"N", "/", "A">>
    /\ fixtures[2].time = Time_20_30

-----------------------------------------------------------------------------
(* Normalized fields and the positions they are read from                  *)

\* s has no white space at its first or last position
NoWhiteSpaceAtEnds(s) == s = <<>> \/ (s[1] \notin WhiteSpace /\ s[Len(s)] \notin WhiteSpace)

\* s has no white space at any position
NoWhiteSpace(s) == \A k \in 1..Len(s) : s[k] \notin WhiteSpace

\* C21: every textual field of a record the extractor pushed (date, time,
\* home_team, away_team, venue) has no white space at its start or end, and
\* the result field of a Result has no white space at all.
C21_FieldsTrimmedResultWithoutWhiteSpace ==
    \A k \in 1..Len(fixtures) :
        /\ NoWhiteSpaceAtEnds(fixtures[k].date)
        /\ NoWhiteSpaceAtEnds(fixtures[k].time)
        /\ NoWhiteSpaceAtEnds(fixtures[k].home_team)
        /\ NoWhiteSpaceAtEnds(fixtures[k].away_team)
        /\ NoWhiteSpaceAtEnds(fixtures[k].venue)
        /\ parser = "results" => NoWhiteSpace(fixtures[k].result)

\* C21 witness: parse_results returned the result '3-1' for the cell ' 3 - 1 '
\* and, for a second row with a padded date/time cell and a padded home cell,
\* the date '28/10/25' and the home team 'Home'
C21_Witness ==
    /\ parser = "results"
    /\ x_pc = "returned"
    /\ table_rows = << ResultRow, FixtureRow(DateTimePadded) >>
    /\ Len(fixtures) = 2
    /\ fixtures[1].result = <<"3", "-", "1">>
    /\ fixtures[2].date = Date_28_10_25
    /\ fixtures[2].home_team = Home

\* the rows the fixtures parsers keep, up to the current row
KeptFixtureRows == KeptRows(parser, table_rows, index)

\* C22: a fixtures row maps by position: cell 1 gives date and time, cell 2 the
\* home team, cell 4 the away team, cell 5 the venue (cells 0 and 3 are not
\* read); the row '', '28/10/25<br>20:30', 'Railway', '-', 'Dragons', 'Club A'
\* gives date 28/10/25, time 20:30, home Railway, away Dragons, venue Club A,
\* whose start is 2025-10-28T20:30:00Z and whose end is 22:30:00Z.
C22_FixtureCellsMappedByPosition ==
    (parser \in {"fixtures", "fixtures_ts"} /\ x_pc \in {"each", "returned"}) =>
        /\ Len(fixtures) = Len(KeptFixtureRows)
        /\ \A k \in 1..Len(fixtures) :
             LET cells == KeptFixtureRows[k]
                 start_date == parse_utc_date(fixtures[k].date, fixtures[k].time)
             IN /\ fixtures[k].date = ExpectedDate(cells[2])
                /\ fixtures[k].time = ExpectedTime(cells[2])
                /\ fixtures[k].home_team = Stripped(Text(cells[3]))
                /\ fixtures[k].away_team = Stripped(Text(cells[5]))
                /\ fixtures[k].venue = Stripped(Text(cells[6]))
                /\ cells = RailwayRow =>
                     /\ fixtures[k] = Fixture(Date_28_10_25, Time_20_30,
                                              <<"R", "a", "i", "l", "w", "a", "y">>,
                                              <<"D", "r", "a", "g", "o", "n", "s">>, ClubA)
                     /\ start_date = [nan |-> FALSE, day |-> 20389, ms |-> 73800000]
                     /\ format_date_for_ical(start_date)
                          = <<"2", "0", "2", "5", "1", "0", "2", "8", "T", "2", "0", "3", "0", "0", "0", "Z">>
                     /\ format_date_for_ical(end_date_of(start_date))
                          = <<"2", "0", "2", "5", "1", "0", "2", "8", "T", "2", "2", "3", "0", "0", "0", "Z">>

\* C22 witness: parse_fixtures returned the record of the scenario's row
C22_Witness ==
    /\ parser = "fixtures"
    /\ x_pc = "returned"
    /\ table_rows = << RailwayRow >>
    /\ fixtures = << Fixture(Date_28_10_25, Time_20_30, <<"R", "a", "i", "l", "w", "a", "y">>,
                             <<"D", "r", "a", "g", "o", "n", "s">>, ClubA) >>

-----------------------------------------------------------------------------
(* A month number outside the calendar                                     *)

\* date is DD/13/YY and time is HH:MM, all of digits
MonthThirteen(date, time) ==
    /\ Len(date) = 8
    /\ Len(time) = 5
    /\ date[3] = "/" /\ date[6] = "/" /\ time[3] = ":"
    /\ \A k \in {1, 2, 4, 5, 7, 8} : IsDigit(date[k])
    /\ \A k \in {1, 2, 4, 5} : IsDigit(time[k])
    /\ TwoDigits(date, 4) = 13

\* C23: a date whose month is 13, such as '05/13/25', is accepted by
\* parse_utc_date: it is not rejected and the record is not dropped, the instant
\* lies outside the stated month (month 13 of 20YY is January of the next year),
\* and the record yields an event whose end is 2 hours after its start.
C23_MonthThirteenAcceptedAndRolledOver ==
    (c_pc \in {"parsed", "formatted", "skipped", "threw"} /\ MonthThirteen(c_date, c_time)) =>
        /\ c_pc \in {"parsed", "formatted"}
        /\ c_start # Null
        /\ ~IsNaN(c_start)
        /\ LET minutes == TwoDigits(c_time, 1) * 60 + TwoDigits(c_time, 4)
           IN /\ c_start.day = CivilDay(2001 + TwoDigits(c_date, 7), 1, 1)
                                  + TwoDigits(c_date, 1) - 1 + (minutes \div 1440)
              /\ c_start.ms = (minutes % 1440) * msPerMinute
        /\ c_pc = "formatted" =>
             /\ IsCompactForm(c_text)
             /\ IsCompactForm(c_end_text)
             /\ SubSeq(c_text, 5, 6) # SubSeq(c_date, 4, 5)
             /\ MinutesOfText(c_end_text) = MinutesOfText(c_text) + 120
             /\ (c_end.day - c_start.day) * msPerDay + (c_end.ms - c_start.ms) = 2 * msPerHour

\* C23 witness: '05/13/25' at '20:30' has been parsed and formatted, as
\* 5 January 2026, 20:30 to 22:30
C23_Witness ==
    /\ c_pc = "formatted"
    /\ c_date = <<"0", "5", "/", "1", "3", "/", "2", "5">>
    /\ c_time = Time_20_30
    /\ c_text = <<"2", "0", "2", "6", "0", "1", "0", "5", "T", "2", "0", "3", "0", "0", "0", "Z">>
    /\ c_end_text = <<"2", "0", "2", "6", "0", "1", "0", "5", "T", "2", "2", "3", "0", "0", "0", "Z">>

-----------------------------------------------------------------------------
(* Two calls of convert_events_to_ical with the same arguments             *)

\* what a call leaves behind for the comparison with the next one: the text it
\* returned, its creation stamp and the arguments as they are after the call
CallRecord ==
    [ical_string |-> ical_string, dtstamp |-> dtstamp, events |-> events,
     location_mapper |-> location_mapper, team_url |-> team_url]

\* the caller calls convert_events_to_ical a second time with the same record
\* list, map and url; the clock reads any of its values when that call starts
CallAgain ==
    /\ pc = "done"
    /\ previous = <<>>
    /\ previous' = << CallRecord >>
    /\ \E clock \in NowValues : now' = clock
    /\ pc' = "start"
    /\ UNCHANGED <<variant, events, location_mapper, team_url, idx, dtstamp, ical_lines,
                   emitted, log, ical_string>>
    /\ UNCHANGED <<script, files, m_pc, teams, team_index, written>>
    /\ UNCHANGED <<codecVars, extVars>>

\* a plain record, one with the 'N/A' placeholders and one whose day is not a number
TwoCallRecords == SerializerRecords \ {FarFutureRecord}

InitTwoCalls ==
    /\ variant = "events"
    /\ events \in SeqsUpTo(TwoCallRecords, MaxEvents)
    /\ location_mapper \in LocationMappers
    /\ team_url \in TeamUrls
    /\ now \in NowValues
    /\ pc = "start"
    /\ idx = 0
    /\ dtstamp = <<>>
    /\ ical_lines = <<>>
    /\ emitted = <<>>
    /\ log = <<>>
    /\ ical_string = <<>>
    /\ CodecIdle
    /\ ExtractorIdle
    /\ MainIdle

NextTwoCalls ==
    \/ Begin
    \/ LoopSkip
    \/ LoopEmit
    \/ LoopThrow
    \/ Finish
    \/ CallAgain

SpecTwoCalls == InitTwoCalls /\ [][NextTwoCalls]_vars

\* the second call has returned and had the creation time of the first one
SecondCallReturnedSameStamp ==
    /\ previous # <<>>
    /\ pc = "done"
    /\ dtstamp = previous[1].dtstamp

\* two texts are the same line for line, but for the values of their UID lines
SameButUidValues(first, second) ==
    /\ Len(first) = Len(second)
    /\ \A k \in 1..Len(first) :
         \/ first[k] = second[k]
         \/ HasName(first[k], "UID:") /\ HasName(second[k], "UID:")

\* C24: serialization is pure apart from the identifiers: two calls with the
\* same record list, the same map and the same creation time return texts that
\* are identical line for line except for the UID values, and no step of either
\* call modifies the record list or the map.
C24_SameInputsSameOutputButUids ==
    /\ [](SecondCallReturnedSameStamp =>
            /\ SameButUidValues(SplitCrlf(previous[1].ical_string), SplitCrlf(ical_string))
            /\ events = previous[1].events
            /\ location_mapper = previous[1].location_mapper)
    /\ [][events' = events /\ location_mapper' = location_mapper]_vars

\* C24 witness: the second call has returned two events at the creation time of
\* the first call, in a text that differs from the first one (in its UID values)
C24_Witness ==
    /\ SecondCallReturnedSameStamp
    /\ Len(events) = 2
    /\ Len(emitted) = 4
    /\ ical_string # previous[1].ical_string

-----------------------------------------------------------------------------
(* From the HTML of one team to its calendar                               *)

\* const fixtures = parse_fixtures(html_content);
\* const ical_string = convert_fixtures_to_ical(fixtures, location_mapper)
HandOverFixtures ==
    /\ parser = "fixtures"
    /\ x_pc = "returned"
    /\ pc = "idle"
    /\ variant' = "fixtures_html"
    /\ events' = fixtures
    /\ pc' = "f_start"
    /\ UNCHANGED <<location_mapper, team_url, now, idx, dtstamp, ical_lines, emitted, log,
                   ical_string>>
    /\ UNCHANGED <<codecVars, extVars, mainVars>>

\* the results parse_results returned are saved as results-{slug}.json, which
\* the build loads; all_events = [...fixtures, ...results] with a fixtures file
\* that holds no record; convert_events_to_ical(all_events, location_mapper, team.url)
HandOverResults ==
    /\ parser = "results"
    /\ x_pc = "returned"
    /\ pc = "idle"
    /\ variant' = "events"
    /\ events' = <<>> \o fixtures
    /\ pc' = "start"
    /\ UNCHANGED <<location_mapper, team_url, now, idx, dtstamp, ical_lines, emitted, log,
                   ical_string>>
    /\ UNCHANGED <<codecVars, extVars, mainVars>>

\* a date/time cell whose day is not a number: 'xx/10/25<br>20:30'
DateTimeNotANumber == <<"x", "x", "/", "1", "0", "/", "2", "5", "<br>", "2", "0", ":", "3", "0">>

\* rows of the team pages: complete ones, one without its date, one without its
\* time, one whose day is not a number, one without date/time markup, a short one
PipelineRows ==
    { FixtureRow(DateTimeFull), FixtureRow(DateTimeNoDate), FixtureRow(DateTimeOnlyDate),
      FixtureRow(DateTimeNotANumber), FixtureRow(<<>>), ResultRow, ShortRow }

\* a page with a fixtures table, a page with a results table, the empty text
PipelineDocuments ==
    { [empty |-> TRUE, tables |-> <<>>] }
    \cup { [empty |-> FALSE, tables |-> << Table(fixed, rows) >>] :
              fixed \in BOOLEAN, rows \in SeqsUpTo(PipelineRows, MaxRows) }

\* the maps of the pipeline: {} and one with an entry for the empty string
PipelineMappers == { <<>>, (<<"c", "l", "u", "b", " ", "a">> :> <<>>) @@ (<<>> :> <<"T", "B", "A">>) }

InitPipeline ==
    /\ parser \in {"fixtures", "results"}
    /\ html_content \in PipelineDocuments
    /\ html_content.tables # <<>> => html_content.tables[1].fixed = (parser = "results")
    /\ x_pc = "start"
    /\ table_rows = <<>>
    /\ index = 0
    /\ fixtures = <<>>
    /\ warnings = <<>>
    /\ variant = "idle"
    /\ events = <<>>
    /\ location_mapper \in PipelineMappers
    /\ team_url \in TeamUrls
    /\ now = Now_2025_11_01
    /\ pc = "idle"
    /\ idx = 0
    /\ dtstamp = <<>>
    /\ ical_lines = <<>>
    /\ emitted = <<>>
    /\ log = <<>>
    /\ ical_string = <<>>
    /\ CodecIdle
    /\ MainIdle

NextPipeline ==
    \/ ParseThrowNoContent
    \/ ParseNoRows
    \/ ParseEach
    \/ RowSkipCells
    \/ RowSkipDateTime
    \/ RowPush
    \/ ParseReturn
    \/ HandOverFixtures
    \/ HtmlFixturesBegin
    \/ FixturesLoopSkip
    \/ FixturesLoopEmit
    \/ FixturesLoopThrow
    \/ FixturesFinish
    \/ HandOverResults
    \/ Begin
    \/ LoopSkip
    \/ LoopEmit
    \/ LoopThrow
    \/ Finish

SpecPipeline == InitPipeline /\ [][NextPipeline]_vars

\* the placeholder of a missing date or time
NotAvailable == <<"N", "/", "A">>

\* the serializer has been called with the records of the page
HandedOver == x_pc = "returned" /\ pc # "idle"

\* no record of the list passes the part count check with a part that is not a number
NoRecordNotANumber ==
    \A k \in 1..Len(events) : PartCountOk(events[k]) => PartsAreNumbers(events[k])

\* C27: end to end, a row whose date or time was replaced by 'N/A' never
\* yields an event: 'N/A' as a date splits into 2 parts and as a time into 1
\* part, so the serializer drops that record, and it still returns the events
\* of the other records of the page.
C27_PlaceholderRowNeverYieldsEvent ==
    HandedOver =>
        /\ events = fixtures
        /\ Len(events) = Len(KeptFixtureRows)
        /\ \A k \in 1..Len(events) :
             LET markup == KeptFixtureRows[k][2]
             IN /\ ExpectedDate(markup) = NotAvailable =>
                     /\ events[k].date = NotAvailable
                     /\ Len(Split(events[k].date, "/")) = 2
                     /\ \A n \in 1..Len(emitted) : emitted[n].index # k
                /\ ExpectedTime(markup) = NotAvailable =>
                     /\ events[k].time = NotAvailable
                     /\ Len(Split(events[k].time, ":")) = 1
                     /\ \A n \in 1..Len(emitted) : emitted[n].index # k
        /\ (EndedAny /\ NoRecordNotANumber) =>
             /\ pc = "done"
             /\ EmittedIndexes = IndexesWhere(1, 0)

\* C27 witness: parse_fixtures and convert_fixtures_to_ical have returned for a
\* page whose first row has no time and whose second row is complete; the only
\* event is the one of the second row
C27_Witness ==
    /\ parser = "fixtures"
    /\ HandedOver
    /\ pc = "done"
    /\ table_rows = << FixtureRow(DateTimeOnlyDate), FixtureRow(DateTimeFull) >>
    /\ events[1].time = NotAvailable
    /\ EmittedIndexes = << 2 >>

\* the LOCATION line of the n-th event block pushed
LocationLineOf(n) == ical_lines[emitted[n].first_line + 3]

\* what the map holds for the empty string, when that is an entry with a value
EntryForEmptyString ==
    IF <<>> \in DOMAIN location_mapper THEN location_mapper[<<>>] ELSE <<>>

\* C30: every record parse_results produces has the empty venue, whatever the
\* cells of its row contain, so the LOCATION of every result event is empty
\* unless the location map has an entry for the empty string.
C30_ResultVenueEmptySoLocationEmpty ==
    parser = "results" =>
        /\ \A k \in 1..Len(fixtures) : fixtures[k].venue = <<>>
        /\ HandedOver =>
             \A n \in 1..Len(emitted) :
                /\ events[emitted[n].index].venue = <<>>
                /\ emitted[n].location = EntryForEmptyString
                /\ LocationLineOf(n) = <<"LOCATION:">> \o EntryForEmptyString
                /\ <<>> \notin DOMAIN location_mapper => LocationLineOf(n) = <<"LOCATION:">>

\* C30 witness: a results row of six cells, whose sixth cell reads ' Club A', has
\* given a result event whose LOCATION is empty, under the map {}
C30_Witness ==
    /\ parser = "results"
    /\ HandedOver
    /\ pc = "done"
    /\ location_mapper = <<>>
    /\ table_rows = << FixtureRow(DateTimeFull) >>
    /\ Len(emitted) = 1
    /\ LocationLineOf(1) = <<"LOCATION:">>

-----------------------------------------------------------------------------
(* The runs over teams.json: main of the build script ("build"), of the    *)
(* results script ("results") and of the scraper ("scrape")                *)

\* values JSON.parse returns for the properties of a team entry
JsString(text) == [type |-> "string", text |-> text]
JsNumber(n) == [type |-> "number", n |-> n]
JsUndefined == [type |-> "undefined"]
JsNull == [type |-> "null"]
JsArray(items) == [type |-> "array", items |-> items]
JsObject(name, url) == [type |-> "object", name |-> name, url |-> url]

\* the truthiness `!value` tests
Truthy(value) ==
    IF value.type = "string" THEN value.text # <<>>
    ELSE IF value.type = "number" THEN value.n # 0
    ELSE value.type \notin {"undefined", "null"}

\* what reading and parsing a file gives: an error code, or the parsed value
Missing == [code |-> "ENOENT"]
Unreadable == [code |-> "EACCES"]
Unparsable == [code |-> "SyntaxError"]
Content(json) == [code |-> "ok", json |-> json]

\* JSON.parse(await fs.readFile(file_path, 'utf8'))
load_json_file_async(file_path) ==
    IF file_path \in DOMAIN files THEN files[file_path] ELSE Missing

\* text.toLowerCase().replace(/\s/g, '-')
slugify(text) ==
    [k \in 1..Len(text) |->
        IF text[k] \in WhiteSpace THEN "-" ELSE ToLowerCase(<<text[k]>>)[1]]

LOCATION_MAPPER_PATH == <<"location_mapper.json">>
TEAMS_FILE_PATH == <<"teams.json">>
json_file_path_fixtures(team_slug) == <<"dist/", "fixtures-">> \o team_slug \o <<".json">>
json_file_path_results(team_slug) == <<"dist/", "results-">> \o team_slug \o <<".json">>
ics_output_path(team_slug) == <<"dist/">> \o team_slug \o <<".ics">>

\* load_location_mapper_async: the parsed map, or {} after a warning (file not
\* found) or an error message (any other failure)
load_location_mapper_async(file_path) ==
    LET loaded == load_json_file_async(file_path)
    IN IF loaded.code = "ok" THEN [mapper |-> loaded.json, message |-> <<>>]
       ELSE IF loaded.code = "ENOENT" THEN [mapper |-> <<>>, message |-> <<"warn_mapper_not_found">>]
       ELSE [mapper |-> <<>>, message |-> <<"error_loading_mapper">>]

\* const location_mapper = await load_location_mapper_async(LOCATION_MAPPER_PATH)
MainLoadLocationMapper ==
    /\ script = "build"
    /\ m_pc = "start"
    /\ location_mapper' = load_location_mapper_async(LOCATION_MAPPER_PATH).mapper
    /\ log' = log \o load_location_mapper_async(LOCATION_MAPPER_PATH).message
    /\ m_pc' = "load_teams"
    /\ UNCHANGED <<variant, events, team_url, now, pc, idx, dtstamp, ical_lines, emitted,
                   ical_string>>
    /\ UNCHANGED <<script, files, teams, team_index, written, previous>>
    /\ UNCHANGED <<codecVars, extVars>>

\* load_teams_async throws 'Failed to load teams file.' and the outer catch of
\* main logs the critical error and calls process.exit(1); the catch of the
\* scraper's main calls process.exit(1) itself
MainLoadTeamsFailed ==
    /\ m_pc = "load_teams"
    /\ load_json_file_async(TEAMS_FILE_PATH).code # "ok"
    /\ log' = log \o (IF script = "scrape" THEN <<"error_teams_file">>
                      ELSE <<"error_teams_file", "critical_error">>)
    /\ m_pc' = "exit_1"
    /\ UNCHANGED <<variant, events, location_mapper, team_url, now, pc, idx, dtstamp,
                   ical_lines, emitted, ical_string>>
    /\ UNCHANGED <<script, files, teams, team_index, written, previous>>
    /\ UNCHANGED <<codecVars, extVars>>

\* const teams = await load_teams_async(TEAMS_FILE_PATH)
MainLoadTeams ==
    /\ m_pc = "load_teams"
    /\ load_json_file_async(TEAMS_FILE_PATH).code = "ok"
    /\ teams' = load_json_file_async(TEAMS_FILE_PATH).json
    /\ m_pc' = "check_teams"
    /\ UNCHANGED <<script, files, team_index, written, previous>>
    /\ UNCHANGED <<serVars, codecVars, extVars>>

\* if (!Array.isArray(teams) || teams.length === 0) { console.warn(...); return; }
MainNothingToProcess ==
    /\ m_pc = "check_teams"
    /\ IF teams.type = "array" THEN Len(teams.items) = 0 ELSE TRUE
    /\ log' = Append(log, "warn_teams_empty_or_invalid")
    /\ m_pc' = "ended"
    /\ UNCHANGED <<variant, events, location_mapper, team_url, now, pc, idx, dtstamp,
                   ical_lines, emitted, ical_string>>
    /\ UNCHANGED <<script, files, teams, team_index, written, previous>>
    /\ UNCHANGED <<codecVars, extVars>>

\* for (const team of teams) is entered
MainEnterLoop ==
    /\ m_pc = "check_teams"
    /\ teams.type = "array"
    /\ Len(teams.items) # 0
    /\ team_index' = 0
    /\ m_pc' = "next_team"
    /\ UNCHANGED <<script, files, teams, written, previous>>
    /\ UNCHANGED <<serVars, codecVars, extVars>>

\* the entry the loop takes next
team == teams.items[team_index + 1]

\* the loop has an entry left to take
HasNextTeam == m_pc = "next_team" /\ team_index < Len(teams.items)

\* !(!team || !team.name || !team.url)
has_name_and_url(entry) ==
    /\ entry.type = "object"
    /\ Truthy(entry.name)
    /\ Truthy(entry.url)

\* the test an entry has to pass: name and url in the build and in the scraper,
\* !(!team || !team.name) in the results script
is_valid_entry(entry) ==
    IF script = "results" THEN entry.type = "object" /\ Truthy(entry.name)
    ELSE has_name_and_url(entry)

\* if (!team || !team.name || !team.url) { console.warn(...); continue; }
TeamSkipInvalid ==
    /\ HasNextTeam
    /\ ~is_valid_entry(team)
    /\ log' = Append(log, "warn_skip_invalid_team")
    /\ team_index' = team_index + 1
    /\ UNCHANGED <<variant, events, location_mapper, team_url, now, pc, idx, dtstamp,
                   ical_lines, emitted, ical_string>>
    /\ UNCHANGED <<script, files, m_pc, teams, written, previous>>
    /\ UNCHANGED <<codecVars, extVars>>

\* slugify(team.name) on a name that is not a string: text.toLowerCase is not a
\* function; the TypeError is thrown outside the try of the team and reaches
\* the outer catch of main, which calls process.exit(1) (in the scraper it
\* rejects the promise of main, which nothing handles: the process ends with
\* exit code 1)
TeamSlugifyThrows ==
    /\ HasNextTeam
    /\ is_valid_entry(team)
    /\ team.name.type # "string"
    /\ log' = Append(log, "critical_error")
    /\ m_pc' = "exit_1"
    /\ UNCHANGED <<variant, events, location_mapper, team_url, now, pc, idx, dtstamp,
                   ical_lines, emitted, ical_string>>
    /\ UNCHANGED <<script, files, teams, team_index, written, previous>>
    /\ UNCHANGED <<codecVars, extVars>>

\* const team_slug = slugify(team.name)
team_slug == slugify(team.name.text)

\* the loop is at an entry whose files it will try to load
AtTeamWithSlug ==
    /\ HasNextTeam
    /\ is_valid_entry(team)
    /\ team.name.type = "string"

\* fixtures = await load_json_file_async(json_file_path_fixtures) throws; the
\* catch of the team logs the error and the loop goes on
TeamFixturesNotLoaded ==
    /\ script = "build"
    /\ AtTeamWithSlug
    /\ load_json_file_async(json_file_path_fixtures(team_slug)).code # "ok"
    /\ log' = Append(log,
                IF load_json_file_async(json_file_path_fixtures(team_slug)).code = "ENOENT"
                THEN "error_fixtures_not_found" ELSE "error_processing_team")
    /\ team_index' = team_index + 1
    /\ UNCHANGED <<variant, events, location_mapper, team_url, now, pc, idx, dtstamp,
                   ical_lines, emitted, ical_string>>
    /\ UNCHANGED <<script, files, m_pc, teams, written, previous>>
    /\ UNCHANGED <<codecVars, extVars>>

\* results = await load_json_file_async(json_file_path_results) throws an error
\* other than ENOENT, which is thrown again and caught by the catch of the team
TeamResultsNotLoaded ==
    /\ script = "build"
    /\ AtTeamWithSlug
    /\ load_json_file_async(json_file_path_fixtures(team_slug)).code = "ok"
    /\ load_json_file_async(json_file_path_results(team_slug)).code \notin {"ok", "ENOENT"}
    /\ log' = Append(log, "error_processing_team")
    /\ team_index' = team_index + 1
    /\ UNCHANGED <<variant, events, location_mapper, team_url, now, pc, idx, dtstamp,
                   ical_lines, emitted, ical_string>>
    /\ UNCHANGED <<script, files, m_pc, teams, written, previous>>
    /\ UNCHANGED <<codecVars, extVars>>

\* the results of the team: the loaded list, or [] when the file is not found
results_or_none(loaded) == IF loaded.code = "ok" THEN loaded.json ELSE <<>>

\* const all_events = [...fixtures, ...results];
\* convert_events_to_ical(all_events, location_mapper, team.url) is called
TeamConvert ==
    /\ script = "build"
    /\ AtTeamWithSlug
    /\ load_json_file_async(json_file_path_fixtures(team_slug)).code = "ok"
    /\ load_json_file_async(json_file_path_results(team_slug)).code \in {"ok", "ENOENT"}
    /\ log' = IF load_json_file_async(json_file_path_results(team_slug)).code = "ENOENT"
              THEN Append(log, "log_no_results_file") ELSE log
    /\ events' = load_json_file_async(json_file_path_fixtures(team_slug)).json
                   \o results_or_none(load_json_file_async(json_file_path_results(team_slug)))
    /\ team_url' = team.url.text
    /\ variant' = "events"
    /\ pc' = "start"
    /\ m_pc' = "convert"
    /\ UNCHANGED <<location_mapper, now, idx, dtstamp, ical_lines, emitted, ical_string>>
    /\ UNCHANGED <<script, files, teams, team_index, written, previous>>
    /\ UNCHANGED <<codecVars, extVars>>

\* a file written: its path, its text and the entry of teams it was written for
FileWritten(file_path, data, entry) == [path |-> file_path, data |-> data, entry |-> entry]

\* await save_ical_file_async(ics_output_path, ical_string)
TeamSave ==
    /\ script = "build"
    /\ m_pc = "convert"
    /\ pc = "done"
    /\ written' = Append(written, FileWritten(ics_output_path(team_slug), ical_string,
                                              team_index + 1))
    /\ log' = Append(log, "log_created")
    /\ team_index' = team_index + 1
    /\ m_pc' = "next_team"
    /\ UNCHANGED <<variant, events, location_mapper, team_url, now, pc, idx, dtstamp,
                   ical_lines, emitted, ical_string>>
    /\ UNCHANGED <<script, files, teams, previous>>
    /\ UNCHANGED <<codecVars, extVars>>

\* convert_events_to_ical threw; the catch of the team logs the error
TeamCatch ==
    /\ script = "build"
    /\ m_pc = "convert"
    /\ pc = "threw"
    /\ log' = Append(log, "error_processing_team")
    /\ team_index' = team_index + 1
    /\ m_pc' = "next_team"
    /\ UNCHANGED <<variant, events, location_mapper, team_url, now, pc, idx, dtstamp,
                   ical_lines, emitted, ical_string>>
    /\ UNCHANGED <<script, files, teams, written, previous>>
    /\ UNCHANGED <<codecVars, extVars>>

\* the loop has taken every entry: console.log('All ... finished.'), main returns
MainFinish ==
    /\ m_pc = "next_team"
    /\ team_index = Len(teams.items)
    /\ log' = Append(log, "log_all_finished")
    /\ m_pc' = "ended"
    /\ UNCHANGED <<variant, events, location_mapper, team_url, now, pc, idx, dtstamp,
                   ical_lines, emitted, ical_string>>
    /\ UNCHANGED <<script, files, teams, team_index, written, previous>>
    /\ UNCHANGED <<codecVars, extVars>>

\* the page of a team the results script reads, the page the scraper writes
html_file_path(slug) == <<"dist/", "team-page-">> \o slug \o <<".html">>
output_path(slug) == <<"dist/", "upcoming-fixtures-">> \o slug \o <<".html">>

\* html_content = await load_html_file_async(html_file_path) throws; the catch
\* of the team logs the error and the loop goes on
ResultsHtmlNotLoaded ==
    /\ script = "results"
    /\ AtTeamWithSlug
    /\ load_json_file_async(html_file_path(team_slug)).code # "ok"
    /\ log' = Append(log,
                IF load_json_file_async(html_file_path(team_slug)).code = "ENOENT"
                THEN "error_html_not_found" ELSE "error_processing_team")
    /\ team_index' = team_index + 1
    /\ UNCHANGED <<variant, events, location_mapper, team_url, now, pc, idx, dtstamp,
                   ical_lines, emitted, ical_string>>
    /\ UNCHANGED <<script, files, m_pc, teams, written, previous>>
    /\ UNCHANGED <<codecVars, extVars>>

\* const results = parse_results(html_content) is called
ResultsParse ==
    /\ script = "results"
    /\ AtTeamWithSlug
    /\ load_json_file_async(html_file_path(team_slug)).code = "ok"
    /\ parser' = "results"
    /\ html_content' = load_json_file_async(html_file_path(team_slug)).json
    /\ x_pc' = "start"
    /\ table_rows' = <<>>
    /\ index' = 0
    /\ fixtures' = <<>>
    /\ m_pc' = "parse"
    /\ UNCHANGED <<warnings, script, files, teams, team_index, written, previous>>
    /\ UNCHANGED <<serVars, codecVars>>

\* await save_json_file_async(json_output_path, results)
ResultsSave ==
    /\ script = "results"
    /\ m_pc = "parse"
    /\ x_pc = "returned"
    /\ written' = Append(written, FileWritten(json_file_path_results(team_slug), fixtures,
                                              team_index + 1))
    /\ log' = Append(log, "log_saved")
    /\ team_index' = team_index + 1
    /\ m_pc' = "next_team"
    /\ UNCHANGED <<variant, events, location_mapper, team_url, now, pc, idx, dtstamp,
                   ical_lines, emitted, ical_string>>
    /\ UNCHANGED <<script, files, teams, previous>>
    /\ UNCHANGED <<codecVars, extVars>>

\* parse_results threw 'No HTML content provided.'; the catch of the team logs it
ResultsCatch ==
    /\ script = "results"
    /\ m_pc = "parse"
    /\ x_pc = "threw_no_content"
    /\ log' = Append(log, "error_processing_team")
    /\ team_index' = team_index + 1
    /\ m_pc' = "next_team"
    /\ UNCHANGED <<variant, events, location_mapper, team_url, now, pc, idx, dtstamp,
                   ical_lines, emitted, ical_string>>
    /\ UNCHANGED <<script, files, teams, written, previous>>
    /\ UNCHANGED <<codecVars, extVars>>

\* scrape_team_fixtures(team.url, team.name): the page is fetched and written
ScrapeTeamSaved ==
    /\ script = "scrape"
    /\ AtTeamWithSlug
    /\ written' = Append(written, FileWritten(output_path(team_slug), <<"response.data">>,
                                              team_index + 1))
    /\ log' = Append(log, "log_saved")
    /\ team_index' = team_index + 1
    /\ UNCHANGED <<variant, events, location_mapper, team_url, now, pc, idx, dtstamp,
                   ical_lines, emitted, ical_string>>
    /\ UNCHANGED <<script, files, m_pc, teams, previous>>
    /\ UNCHANGED <<codecVars, extVars>>

\* scrape_team_fixtures(team.url, team.name): axios.get or the write fails; the
\* catch inside scrape_team_fixtures logs the error
ScrapeTeamFailed ==
    /\ script = "scrape"
    /\ AtTeamWithSlug
    /\ log' = Append(log, "error_scrape")
    /\ team_index' = team_index + 1
    /\ UNCHANGED <<variant, events, location_mapper, team_url, now, pc, idx, dtstamp,
                   ical_lines, emitted, ical_string>>
    /\ UNCHANGED <<script, files, m_pc, teams, written, previous>>
    /\ UNCHANGED <<codecVars, extVars>>

-----------------------------------------------------------------------------
(* Inputs of the runs                                                      *)

\* the url of every team entry that has one
TeamUrl == <<"h", "t", "t", "p", ":", "/", "/", "t", ".", "e", "/", "1">>

NamedTeam(name) == JsObject(JsString(name), JsString(TeamUrl))

\* entries of teams.json: five teams with a name and a url, null, an entry
\* without url, and an entry whose name is a number
TeamA == NamedTeam(<<"T", "e", "a", "m", " ", "A">>)
TeamB == NamedTeam(<<"B">>)
TeamC == NamedTeam(<<"C">>)
TeamD == NamedTeam(<<"D">>)
TeamE == NamedTeam(<<"E">>)
TeamWithoutUrl == JsObject(JsString(<<"T", "e", "a", "m", " ", "A">>), JsUndefined)
TeamNumberName == JsObject(JsNumber(7), JsString(TeamUrl))

TeamEntries == {TeamA, TeamB, TeamC, TeamD, TeamE, JsNull, TeamWithoutUrl, TeamNumberName}

\* most entries in teams.json
MaxTeams == 2

\* a document with one table
Page(fixed, rows) == [empty |-> FALSE, tables |-> << Table(fixed, rows) >>]

\* the files under dist/: team A has fixtures (one of them without date and
\* time) and a result; team B has a fixture at the venue 'constructor' and no
\* results file; the results file of team C is not valid JSON; team D has no
\* fixtures file; the fixture of team E has a day that is not a number.  The
\* pages: a results table for A, no table for B, an empty file for C, no file
\* for D, a row without date/time markup for E
DistFiles ==
    (json_file_path_fixtures(<<"t", "e", "a", "m", "-", "a">>) :>
        Content(<< Fixture(Date_28_10_25, Time_20_30, Home, Away, ClubA),
                   Fixture(NotAvailable, NotAvailable, Home, Away, ClubA) >>))
    @@ (json_file_path_results(<<"t", "e", "a", "m", "-", "a">>) :>
        Content(<< ResultRecord(Date_28_10_25, Time_20_30, Home, Away, <<>>, <<"3", "-", "1">>) >>))
    @@ (json_file_path_fixtures(<<"b">>) :>
        Content(<< Fixture(Date_28_10_25, Time_20_30, Home, Away,
                           <<"c", "o", "n", "s", "t", "r", "u", "c", "t", "o", "r">>) >>))
    @@ (json_file_path_fixtures(<<"c">>) :>
        Content(<< Fixture(Date_28_10_25, Time_20_30, Home, Away, ClubA) >>))
    @@ (json_file_path_results(<<"c">>) :> Unparsable)
    @@ (json_file_path_results(<<"d">>) :>
        Content(<< ResultRecord(Date_28_10_25, Time_20_30, Home, Away, <<>>, <<"3", "-", "1">>) >>))
    @@ (json_file_path_fixtures(<<"e">>) :>
        Content(<< Fixture(<<"x", "x", "/", "1", "0", "/", "2", "5">>, Time_20_30, Home, Away, ClubA) >>))
    @@ (html_file_path(<<"t", "e", "a", "m", "-", "a">>) :> Content(Page(TRUE, << ResultRow, ShortRow >>)))
    @@ (html_file_path(<<"b">>) :> Content([empty |-> FALSE, tables |-> <<>>]))
    @@ (html_file_path(<<"c">>) :> Content([empty |-> TRUE, tables |-> <<>>]))
    @@ (html_file_path(<<"e">>) :> Content(Page(TRUE, << FixtureRow(<<>>) >>)))

\* teams.json: not there, not valid JSON, an object that is not a list, or a list
TeamsFiles ==
    { Missing, Unparsable, Content(JsObject(JsUndefined, JsUndefined)) }
    \cup { Content(JsArray(items)) : items \in SeqsUpTo(TeamEntries, MaxTeams) }

\* location_mapper.json: not there, not valid JSON, not readable, or a map
LocationMapperFiles ==
    { Missing, Unparsable, Unreadable,
      Content(<<"c", "l", "u", "b", " ", "a">> :> <<"M", "a", "i", "n", " ", "H", "a", "l", "l">>) }

\* the files of a run; a file that is not there has no entry
FileSystem(location_mapper_file, teams_file) ==
    LET with_mapper == IF location_mapper_file = Missing THEN DistFiles
                       ELSE (LOCATION_MAPPER_PATH :> location_mapper_file) @@ DistFiles
    IN IF teams_file = Missing THEN with_mapper
       ELSE (TEAMS_FILE_PATH :> teams_file) @@ with_mapper

InitMain ==
    /\ script \in {"build", "results", "scrape"}
    /\ \E location_mapper_file \in (IF script = "build" THEN LocationMapperFiles ELSE {Missing}) :
         \E teams_file \in TeamsFiles :
            files = FileSystem(location_mapper_file, teams_file)
    /\ m_pc = (IF script = "build" THEN "start" ELSE "load_teams")
    /\ teams = JsNull
    /\ team_index = 0
    /\ written = <<>>
    /\ previous = <<>>
    /\ variant = "events"
    /\ events = <<>>
    /\ location_mapper = <<>>
    /\ team_url = <<>>
    /\ now = Now_2025_11_01
    /\ pc = "idle"
    /\ idx = 0
    /\ dtstamp = <<>>
    /\ ical_lines = <<>>
    /\ emitted = <<>>
    /\ log = <<>>
    /\ ical_string = <<>>
    /\ CodecIdle
    /\ ExtractorIdle

NextMain ==
    \/ MainLoadLocationMapper
    \/ MainLoadTeamsFailed
    \/ MainLoadTeams
    \/ MainNothingToProcess
    \/ MainEnterLoop
    \/ TeamSkipInvalid
    \/ TeamSlugifyThrows
    \/ TeamFixturesNotLoaded
    \/ TeamResultsNotLoaded
    \/ TeamConvert
    \/ Begin
    \/ LoopSkip
    \/ LoopEmit
    \/ LoopThrow
    \/ Finish
    \/ TeamSave
    \/ TeamCatch
    \/ ResultsHtmlNotLoaded
    \/ ResultsParse
    \/ ParseThrowNoContent
    \/ ParseNoRows
    \/ ParseEach
    \/ RowSkipCells
    \/ RowSkipDateTime
    \/ RowPush
    \/ ParseReturn
    \/ ResultsSave
    \/ ResultsCatch
    \/ ScrapeTeamSaved
    \/ ScrapeTeamFailed
    \/ MainFinish

SpecMain == InitMain /\ [][NextMain]_vars

\* the event loop runs main to its end: a step that can be taken is taken
SpecMainFair == SpecMain /\ WF_vars(NextMain)

-----------------------------------------------------------------------------
(* Properties of the runs                                                  *)

\* what the run found when it read location_mapper.json and teams.json
LocationMapperFile == load_json_file_async(LOCATION_MAPPER_PATH)
TeamsFile == load_json_file_async(TEAMS_FILE_PATH)

\* the run is over: main returned, or process.exit(1) was called
RunOver == m_pc \in {"ended", "exit_1"}

\* C25: a location map file that is missing, unreadable or not valid JSON is
\* not fatal: load_location_mapper_async returns the empty map, the run goes on
\* to load the teams, and the LOCATION of every event pushed in that run is the
\* raw venue of its record.
C25_MissingLocationMapGivesRawVenues ==
    /\ []((script = "build" /\ m_pc # "start" /\ LocationMapperFile.code # "ok")
             => location_mapper = <<>>)
    /\ [][(script = "build" /\ m_pc = "start") => m_pc' = "load_teams"]_vars
    /\ [][(script = "build" /\ LocationMapperFile.code # "ok"
             /\ Len(emitted') = Len(emitted) + 1)
            => ical_lines'[emitted'[Len(emitted')].first_line + 3]
                 = <<"LOCATION:">> \o events[idx].venue]_vars

\* the entries of teams.json the loop has taken
TakenEntries == IF teams.type = "array" THEN 1..team_index ELSE {}

\* the files written for the i-th entry of teams.json
WrittenFor(i) == SelectSeq(written, LAMBDA w : w.entry = i)

\* the i-th entry has a name and a url, the name being a text
IsNamedTeam(i) == has_name_and_url(teams.items[i]) /\ teams.items[i].name.type = "string"

\* the slug of the i-th entry
SlugOf(i) == slugify(teams.items[i].name.text)

FixturesFileOf(i) == load_json_file_async(json_file_path_fixtures(SlugOf(i)))
ResultsFileOf(i) == load_json_file_async(json_file_path_results(SlugOf(i)))

\* the SUMMARY lines of a calendar text, in order
SummaryLinesOf(data) == SelectSeq(SplitCrlf(data), LAMBDA line : HasName(line, "SUMMARY:"))

\* the summary of a fixture: home ' vs ' away
IsFixtureSummary(line) == \E k \in 1..Len(line) : line[k] = " vs "

\* in the calendar text all fixture events stand before all result events
FixturesBeforeResults(data) ==
    LET summaries == SummaryLinesOf(data)
    IN \A j \in 1..Len(summaries) : \A k \in (j + 1)..Len(summaries) :
          IsFixtureSummary(summaries[k]) => IsFixtureSummary(summaries[j])

\* C26: the build writes one calendar dist/{slug}.ics for every entry of
\* teams.json that has a name and a url and whose fixtures JSON loads; it takes
\* the entries one at a time in list order and each at most once; an invalid
\* entry or a failure at one team never keeps the later teams from being
\* processed, and the loop always reaches its end.
C26_OneCalendarPerTeamLoopReachesEnd ==
    /\ []((script = "build" /\ m_pc = "ended" /\ teams.type = "array") =>
            /\ team_index = Len(teams.items)
            /\ \A i \in 1..Len(teams.items) :
                 IF IsNamedTeam(i) /\ FixturesFileOf(i).code = "ok"
                 THEN /\ Len(WrittenFor(i)) = 1
                      /\ WrittenFor(i)[1].path = ics_output_path(SlugOf(i))
                 ELSE Len(WrittenFor(i)) = 0
            /\ \A j \in 1..Len(written) : \A k \in (j + 1)..Len(written) :
                 written[j].entry < written[k].entry)
    /\ [][team_index' \in {team_index, team_index + 1}]_vars
    /\ ((script = "build" /\ m_pc = "next_team") ~> (m_pc = "ended"))

\* C28: in the build of fixtures and results, the calendar of a team is
\* written exactly when its fixtures file loads and its results file either
\* loads or is absent (a missing results file counts as no results; a missing
\* fixtures file, or a results file that fails in another way, means no
\* calendar); in a calendar that is written all fixture events stand before
\* all result events.
C28_CalendarIffFixturesLoadAndResultsLoadOrAbsent ==
    (script = "build" /\ m_pc \in {"next_team", "ended"}) =>
        /\ \A i \in TakenEntries :
             IsNamedTeam(i) =>
                (Len(WrittenFor(i)) = 1
                   <=> /\ FixturesFileOf(i).code = "ok"
                       /\ ResultsFileOf(i).code \in {"ok", "ENOENT"})
        /\ \A k \in 1..Len(written) : FixturesBeforeResults(written[k].data)

\* C29: when teams.json cannot be read or parsed the run ends with exit code 1
\* before any team is processed and before any output is written; when it holds
\* the empty list or no list, main returns normally without output; a failure
\* at one team never makes the run end with exit code 1.
C29_ExitCodeOfRuns ==
    /\ TeamsFile.code # "ok" =>
         /\ team_index = 0
         /\ written = <<>>
         /\ m_pc \in {"start", "load_teams", "exit_1"}
    /\ TeamsFile.code = "ok" => m_pc # "exit_1"
    /\ (TeamsFile.code = "ok" /\ RunOver
          /\ (IF TeamsFile.json.type = "array" THEN Len(TeamsFile.json.items) = 0 ELSE TRUE)) =>
         /\ m_pc = "ended"
         /\ team_index = 0
         /\ written = <<>>

=============================================================================
